---- MODULE Spec2Model ----
(***************************************************************************)
(* Model of the digest pipeline of src/oryx_core/digest.py:                *)
(* generate_digest, _collect_for and the helpers they call (Spec), and of  *)
(* the calls of src/app_cli.py around it: load_channels_config,            *)
(* build_message and post_to_slack (SpecCli), and of build_blocks of       *)
(* src/slack_blocks.py (SpecBlocks).                                       *)
(*                                                                         *)
(* Python strings are sequences of one-character strings, so that the      *)
(* substring, suffix and strip operations of the code are computed and     *)
(* not assumed.  Times are integers, one unit per hour; the time tuples   *)
(* of feed entries are in UTC and time.mktime reads them as local time.    *)
(***************************************************************************)
EXTENDS Integers, Sequences, FiniteSets, TLC

(* ------------------------------------------------------------------ *)
(* Bounds of the model                                                 *)
(* ------------------------------------------------------------------ *)
\* longest input country list
MaxCountries == 2
\* entries the upstream returns during one run of the probing feed
MaxEntries == 1

(* ------------------------------------------------------------------ *)
(* Python string operations                                            *)
(* ------------------------------------------------------------------ *)
UpperCase == <<"A","B","C","D","E","F","G","H","I","J","K","L","M","N","O","P","Q","R","S","T","U","V","W","X","Y","Z">>
LowerCase == <<"a","b","c","d","e","f","g","h","i","j","k","l","m","n","o","p","q","r","s","t","u","v","w","x","y","z">>

\* str.lower() on one character
LowerChar(c) ==
    IF \E i \in 1..Len(UpperCase) : UpperCase[i] = c
    THEN LowerCase[CHOOSE i \in 1..Len(UpperCase) : UpperCase[i] = c]
    ELSE c

\* str.lower()
Lower(s) == [i \in 1..Len(s) |-> LowerChar(s[i])]

\* p in s
Contains(s, p) ==
    \E i \in 0..(Len(s) - Len(p)) : SubSeq(s, i + 1, i + Len(p)) = p

\* s.endswith(p)
EndsWith(s, p) ==
    /\ Len(p) <= Len(s)
    /\ SubSeq(s, Len(s) - Len(p) + 1, Len(s)) = p

\* s.startswith(p)
StartsWith(s, p) ==
    /\ Len(p) <= Len(s)
    /\ SubSeq(s, 1, Len(p)) = p

\* s.lstrip(chars): drops the longest prefix made of characters of chars
LStrip(s, chars) ==
    LET keep == {i \in 1..Len(s) : s[i] \notin chars}
    IN  IF keep = {} THEN <<>>
        ELSE SubSeq(s, CHOOSE i \in keep : \A j \in keep : i <= j, Len(s))

\* s.rstrip(chars)
RStrip(s, chars) ==
    LET keep == {i \in 1..Len(s) : s[i] \notin chars}
    IN  IF keep = {} THEN <<>>
        ELSE SubSeq(s, 1, CHOOSE i \in keep : \A j \in keep : i >= j)

Whitespace == {" ", "\n", "\t", "\r"}

\* s.strip()
Strip(s) == RStrip(LStrip(s, Whitespace), Whitespace)

\* html.unescape: the modelled alphabet has no "&", so no character
\* reference is ever present and the text is returned as it is
html_unescape(s) == s

\* position of the first character of s from index from on that lies in
\* delims, or Len(s) + 1
FirstOf(s, from, delims) ==
    LET hits == {i \in from..Len(s) : s[i] \in delims}
    IN  IF hits = {} THEN Len(s) + 1
        ELSE CHOOSE i \in hits : \A j \in hits : i <= j

Letters ==
    {LowerCase[i] : i \in 1..Len(LowerCase)} \cup
    {UpperCase[i] : i \in 1..Len(UpperCase)}

Digits == {"0", "1", "2", "3", "4", "5", "6", "7", "8", "9"}

SchemeChars == Letters \cup Digits \cup {"+", "-", "."}

\* urllib.parse.urlsplit(url).netloc
netloc(url) ==
    LET colon == FirstOf(url, 1, {":"})
        hasScheme == /\ colon > 1
                     /\ colon <= Len(url)
                     /\ url[1] \in Letters
                     /\ \A i \in 1..(colon - 1) : url[i] \in SchemeChars
        rest == IF hasScheme THEN SubSeq(url, colon + 1, Len(url)) ELSE url
    IN  IF StartsWith(rest, <<"/","/">>)
        THEN SubSeq(rest, 3, FirstOf(rest, 3, {"/", "?", "#"}) - 1)
        ELSE <<>>

(* ------------------------------------------------------------------ *)
(* Source registry (the entries of the tables the model uses)          *)
(* ------------------------------------------------------------------ *)
Serbia == <<"S","e","r","b","i","a">>
\* a country the tables do not list
Kenya == <<"K","e","n","y","a">>

ALT_NAMES == (Serbia :> <<<<"S","e","r","b","i","a">>, <<"S","r","b","i","j","a">>>>)

COUNTRY_TLDS == (Serbia :> <<<<".","r","s">>>>)

COUNTRY_CONF ==
    (Serbia :> [verified_sites |-> <<<<"g","o","v",".","r","s">>, <<"p","a","r","l","a","m","e","n","t",".","r","s">>>>,
                media_sites    |-> <<<<"r","t","s",".","r","s">>, <<"n","1","i","n","f","o",".","r","s">>, <<"b","9","2",".","n","e","t">>,
                                     <<"d","a","n","a","s",".","r","s">>, <<"n","o","v","a",".","r","s">>, <<"p","o","l","i","t","i","k","a",".","r","s">>>>])

GLOBAL_ALLOWED ==
    <<<<"e","u","r","o","p","a",".","e","u">>, <<"e","c",".","e","u","r","o","p","a",".","e","u">>, <<"c","o","e",".","i","n","t">>, <<"o","e","c","d",".","o","r","g">>,
      <<"w","o","r","l","d","b","a","n","k",".","o","r","g">>, <<"a","f","d","b",".","o","r","g">>, <<"e","i","t","i",".","o","r","g">>, <<"t","r","a","n","s","p","a","r","e","n","c","y",".","o","r","g">>,
      <<"u","n","d","p",".","o","r","g">>, <<"u","n",".","o","r","g">>, <<"n","e","w","s",".","u","n",".","o","r","g">>, <<"o","s","c","e",".","o","r","g">>, <<"e","b","r","d",".","c","o","m">>>>

\* three of the ten themes, with their ASCII trigger phrases, kept in the
\* order of the dict
THEMES ==
    << [name |-> "Open Government",
        kws  |-> <<<<"o","p","e","n"," ","g","o","v","e","r","n","m","e","n","t">>, <<"o","p","e","n"," ","g","o","v">>, <<"o","g","p">>,
                   <<"o","p","e","n"," ","g","o","v","e","r","n","a","n","c","e">>, <<"o","f","f","e","n","e"," ","r","e","g","i","e","r","u","n","g">>,
                   <<"o","t","v","o","r","e","n","a"," ","v","l","a","d","a">>>>],
       [name |-> "Anti-Corruption",
        kws  |-> <<<<"a","n","t","i","-","c","o","r","r","u","p","t","i","o","n">>, <<"a","n","t","i","c","o","r","r","u","p","t","i","o","n">>, <<"c","o","r","r","u","p","t","i","o","n">>,
                   <<"b","r","i","b","e","r","y">>, <<"i","n","t","e","g","r","i","t","y">>, <<"k","o","r","u","p","c","e">>, <<"k","o","r","u","p","c","i","a">>,
                   <<"k","o","r","u","p","c","i","j","a">>, <<"b","e","s","t","e","c","h","u","n","g">>>>],
       [name |-> "Justice",
        kws  |-> <<<<"j","u","s","t","i","c","e">>, <<"j","u","d","i","c","i","a","r","y">>, <<"c","o","u","r","t">>, <<"p","r","o","s","e","c","u","t","i","o","n">>,
                   <<"r","u","l","e"," ","o","f"," ","l","a","w">>, <<"w","h","i","s","t","l","e","b","l","o","w","e","r">>, <<"p","r","a","v","o","s","u","d","j","e">>,
                   <<"s","o","u","d">>, <<"g","e","r","i","c","h","t">>>>] >>

ThemeNames == {THEMES[i].name : i \in 1..Len(THEMES)}

\* the patterns of the regular expression of _is_verified_domain
VerifiedPatterns ==
    {<<"g","o","v">>, <<"g","o","u","v">>, <<"p","a","r","l","i","a","m","e","n","t">>, <<"p","a","r","l","a","m","e","n","t">>, <<"s","e","n","a","t">>,
     <<"s","e","n","a","t","e">>, <<"a","s","s","e","m","b","l","e","e">>, <<"d","a","t","a",".","g","o","v">>}

\* items shown per country
DisplayCap == 6

(* ------------------------------------------------------------------ *)
(* Helpers of digest.py                                                *)
(* ------------------------------------------------------------------ *)
\* the subsequence of s at the indices of keep, in order
SelectIdx(s, keep) ==
    LET ks == keep \cap (1..Len(s))
    IN  [k \in 1..Cardinality(ks) |->
            s[CHOOSE i \in ks : Cardinality({j \in ks : j <= i}) = k]]

\* ENABLED_THEMES is a set of theme names; the empty set stands for both
\* None and the empty set, which the test "if ENABLED_THEMES and ..." treats
\* alike
_match_themes(text, enabled) ==
    LET text_l == Lower(text)
        hit(i) == /\ ~(enabled # {} /\ THEMES[i].name \notin enabled)
                  /\ \E k \in 1..Len(THEMES[i].kws) :
                        Contains(text_l, Lower(THEMES[i].kws[k]))
        names == [i \in 1..Len(THEMES) |-> THEMES[i].name]
    IN  SelectIdx(names, {i \in 1..Len(THEMES) : hit(i)})

\* time.mktime(t): the time tuple, which the feed gives in UTC, is read as
\* local time; zone is the UTC offset of the local time zone
mktime(t, zone) == t - zone

\* entry.get("published_parsed") or entry.get("updated_parsed"), converted;
\* a missing value and the result None are <<>>, a time t is <<t>>
_ts(entry, zone) ==
    LET t == IF entry.published_parsed # <<>> THEN entry.published_parsed
             ELSE entry.updated_parsed
    IN  IF t = <<>> THEN <<>> ELSE <<mktime(t[1], zone)>>

_domain(url) == LStrip(Lower(netloc(url)), {"w", "."})

_names(country) ==
    IF country \in DOMAIN ALT_NAMES THEN ALT_NAMES[country] ELSE <<country>>

_contains_country(txt, country) ==
    LET t == Lower(txt)
        ns == _names(country)
    IN  \E i \in 1..Len(ns) : Contains(t, Lower(ns[i]))

_is_local_domain(country, dom) ==
    LET tlds == IF country \in DOMAIN COUNTRY_TLDS THEN COUNTRY_TLDS[country]
                ELSE <<>>
    IN  \E i \in 1..Len(tlds) : EndsWith(dom, tlds[i])

_endswith_any(d, sites) ==
    LET dl == Lower(d)
    IN  \E i \in 1..Len(sites) :
            dl = Lower(sites[i]) \/ EndsWith(dl, Lower(sites[i]))

_is_verified_domain(country, dom) ==
    IF /\ country \in DOMAIN COUNTRY_CONF
       /\ _endswith_any(dom, COUNTRY_CONF[country].verified_sites)
    THEN TRUE
    ELSE \E p \in VerifiedPatterns : Contains(dom, p)

is_global(dom) ==
    \E i \in 1..Len(GLOBAL_ALLOWED) :
        dom = GLOBAL_ALLOWED[i] \/ EndsWith(dom, GLOBAL_ALLOWED[i])

_allowed_domain_for_country(country, dom, title, summary, verified_hint) ==
    LET text == title \o <<" ">> \o summary
    IN  IF /\ country \in DOMAIN COUNTRY_CONF
           /\ \/ _endswith_any(dom, COUNTRY_CONF[country].verified_sites)
              \/ _endswith_any(dom, COUNTRY_CONF[country].media_sites)
        THEN TRUE
        ELSE IF _is_local_domain(country, dom) /\ _contains_country(text, country)
        THEN TRUE
        ELSE IF is_global(dom)
        THEN _contains_country(text, country)
        ELSE IF verified_hint /\ _is_verified_domain(country, dom)
        THEN _contains_country(text, country)
        ELSE FALSE

\* the identity key of an item: it["link"] or (it["title"] + it["domain"])
KeyOf(it) == IF it.link # <<>> THEN it.link ELSE it.title \o it.domain

RECURSIVE DedupeFrom(_, _)
DedupeFrom(items, seen) ==
    IF items = <<>> THEN <<>>
    ELSE LET it == Head(items)
             key == KeyOf(it)
         IN  IF key # <<>> /\ key \notin seen
             THEN <<it>> \o DedupeFrom(Tail(items), seen \cup {key})
             ELSE DedupeFrom(Tail(items), seen)

_dedupe(items) == DedupeFrom(items, {})

(* ------------------------------------------------------------------ *)
(* _build_queries                                                      *)
(* ------------------------------------------------------------------ *)
\* the double quote character of the query text
DQ == "\""

\* f'"{n}"'
Quoted(s) == <<DQ>> \o s \o <<DQ>>

\* sep.join(parts)
RECURSIVE Join(_, _)
Join(parts, sep) ==
    IF parts = <<>> THEN <<>>
    ELSE IF Len(parts) = 1 THEN parts[1]
    ELSE parts[1] \o sep \o Join(Tail(parts), sep)

\* the keywords of TOPIC_KEYWORDS written in ASCII, in the order of the list
TOPIC_KEYWORDS ==
    <<Quoted(<<"o","p","e","n"," ","g","o","v","e","r","n","m","e","n","t">>), <<"t","r","a","n","s","p","a","r","e","n","c","y">>,
      Quoted(<<"a","c","c","e","s","s"," ","t","o"," ","i","n","f","o","r","m","a","t","i","o","n">>), <<"w","h","i","s","t","l","e","b","l","o","w","e","r">>,
      Quoted(<<"b","e","n","e","f","i","c","i","a","l"," ","o","w","n","e","r","s","h","i","p">>), Quoted(<<"o","p","e","n"," ","d","a","t","a">>),
      <<"a","n","t","i","c","o","r","r","u","p","t","i","o","n">>, <<"a","n","t","i","-","c","o","r","r","u","p","t","i","o","n">>, <<"t","r","a","n","s","p","a","r","e","n","t","n","o","s","t">>,
      <<"p","r","o","t","i","k","o","r","u","p","c","i","a">>, <<"a","n","t","i","k","o","r","u","p","c","i","j","a">>, <<"p","r","i","s","t","u","p"," ","i","n","f","o","r","m","a","c","i","j","a","m","a">>,
      <<"T","r","a","n","s","p","a","r","e","n","z">>, <<"I","n","f","o","r","m","a","t","i","o","n","s","f","r","e","i","h","e","i","t">>, <<"O","f","f","e","n","e"," ","D","a","t","e","n">>,
      <<"t","r","a","n","s","p","a","r","e","n","c","e">>>>

\* f"({a})"
Paren(a) == <<"(">> \o a \o <<")">>

\* the query texts of the verified-site and media-site passes with every
\* domain of a list OR-ed into one site group
_build_queriesOrSites(country, targeted) ==
    LET names == Join([i \in 1..Len(_names(country)) |->
                          Quoted(_names(country)[i])], <<" ","O","R"," ">>)
        topics == Join(TOPIC_KEYWORDS, <<" ","O","R"," ">>)
        sites(l) == Join([i \in 1..Len(l) |-> <<"s","i","t","e",":">> \o l[i]], <<" ","O","R"," ">>)
    IN  IF targeted /\ country \in DOMAIN COUNTRY_CONF
        THEN LET conf == COUNTRY_CONF[country]
             IN  [verified |-> <<Paren(topics) \o <<" ">> \o Paren(names) \o <<" ">>
                                  \o Paren(sites(conf.verified_sites))>>,
                  media |-> <<Paren(topics) \o <<" ">> \o Paren(names) \o <<" ">>
                               \o Paren(sites(conf.media_sites))>>]
        ELSE [generic |-> <<Paren(topics) \o <<" ">> \o Paren(names)>>]

_build_queries(country, targeted) ==
    LET names == Join([i \in 1..Len(_names(country)) |->
                          Quoted(_names(country)[i])], <<" ","O","R"," ">>)
        topics == Join(TOPIC_KEYWORDS, <<" ","O","R"," ">>)
    IN  IF targeted /\ country \in DOMAIN COUNTRY_CONF
        THEN LET conf == COUNTRY_CONF[country]
                 ver == [i \in 1..Len(conf.verified_sites) |->
                            Paren(topics) \o <<" ">> \o Paren(names) \o <<" ">>
                            \o Paren(<<"s","i","t","e",":">> \o conf.verified_sites[i])]
                 med == [i \in 1..Len(conf.media_sites) |->
                            Paren(topics) \o <<" ">> \o Paren(names) \o <<" ">>
                            \o Paren(<<"s","i","t","e",":">> \o conf.media_sites[i])]
             IN  [verified |-> ver, media |-> med]
        ELSE [generic |-> <<Paren(topics) \o <<" ">> \o Paren(names)>>]

(* ------------------------------------------------------------------ *)
(* _collect_for: what each stage does with one feed entry              *)
(* ------------------------------------------------------------------ *)
\* the fields every stage reads from an entry that passed the recency test
Fields(e) ==
    [link    |-> e.link,
     title   |-> Strip(html_unescape(e.title)),
     summary |-> Strip(html_unescape(e.summary)),
     dom     |-> _domain(e.link)]

\* the test without the comparison with the cutoff
FreshAnyAge(dt, cut) == dt # <<>>

\* the test with "dt <= cutoff"
FreshStrict(dt, cut) == ~(dt = <<>> \/ dt[1] <= cut)

\* "if not dt or dt < cutoff: continue"
Fresh(dt, cut) == ~(dt = <<>> \/ dt[1] < cut)

MakeItem(f, dt, themes, ver) ==
    [title |-> f.title, link |-> f.link, summary |-> f.summary,
     domain |-> f.dom, time |-> dt[1], themes |-> themes, verified |-> ver]

\* targeted stage, one entry of a query of the given label: <<>> when the
\* entry is skipped, else the item in a one-element sequence
TargetedItem(country, zone, cut, enabled, label, e) ==
    LET dt == _ts(e, zone)
    IN  IF ~Fresh(dt, cut) THEN <<>>
        ELSE LET f == Fields(e)
                 themes == _match_themes(f.title \o <<" ">> \o f.summary, enabled)
             IN  IF themes = <<>> THEN <<>>
                 ELSE IF ~_allowed_domain_for_country(country, f.dom, f.title,
                                                     f.summary, label = "verified")
                 THEN <<>>
                 ELSE <<MakeItem(f, dt, themes,
                                 (label = "verified")
                                     \/ _is_verified_domain(country, f.dom))>>

\* fallback (A), one entry of a site-only query
FallbackAItem(country, zone, cut, enabled, e) ==
    LET dt == _ts(e, zone)
    IN  IF ~Fresh(dt, cut) THEN <<>>
        ELSE LET f == Fields(e)
                 themes == _match_themes(f.title \o <<" ">> \o f.summary, enabled)
             IN  IF themes = <<>> THEN <<>>
                 ELSE <<MakeItem(f, dt, themes, TRUE)>>

\* fallback (B) without "if not themes: continue"
FallbackBItemNoThemeGate(country, zone, cut, enabled, e) ==
    LET dt == _ts(e, zone)
    IN  IF ~Fresh(dt, cut) THEN <<>>
        ELSE LET f == Fields(e)
             IN  IF ~_contains_country(f.title \o <<" ">> \o f.summary, country)
                 THEN <<>>
                 ELSE IF _is_local_domain(country, f.dom) \/ is_global(f.dom)
                 THEN <<MakeItem(f, dt,
                                 _match_themes(f.title \o <<" ">> \o f.summary,
                                               enabled), FALSE)>>
                 ELSE <<>>

\* fallback (B) without the test of the country name
FallbackBItemNoCountryGate(country, zone, cut, enabled, e) ==
    LET dt == _ts(e, zone)
    IN  IF ~Fresh(dt, cut) THEN <<>>
        ELSE LET f == Fields(e)
                 themes == _match_themes(f.title \o <<" ">> \o f.summary, enabled)
             IN  IF themes = <<>> THEN <<>>
                 ELSE IF _is_local_domain(country, f.dom) \/ is_global(f.dom)
                 THEN <<MakeItem(f, dt, themes, FALSE)>>
                 ELSE <<>>

\* fallback (B), one entry of the name-only query
FallbackBItem(country, zone, cut, enabled, e) ==
    LET dt == _ts(e, zone)
    IN  IF ~Fresh(dt, cut) THEN <<>>
        ELSE LET f == Fields(e)
             IN  IF ~_contains_country(f.title \o <<" ">> \o f.summary, country)
                 THEN <<>>
                 ELSE LET themes == _match_themes(f.title \o <<" ">> \o f.summary,
                                                  enabled)
                      IN  IF themes = <<>> THEN <<>>
                          ELSE IF _is_local_domain(country, f.dom) \/ is_global(f.dom)
                          THEN <<MakeItem(f, dt, themes, FALSE)>>
                          ELSE <<>>

(* ------------------------------------------------------------------ *)
(* The feed source: what a fetch can return                            *)
(* ------------------------------------------------------------------ *)
Entry(link, title, summary, pub, upd) ==
    [link |-> link, title |-> title, summary |-> summary,
     published_parsed |-> pub, updated_parsed |-> upd]

\* a probing feed: one entry for each way through the filters
Probe ==
    { Entry(<<"h","t","t","p","s",":","/","/","w","w","w",".","g","o","v",".","r","s","/","a">>, <<" ","O","G","P"," ","p","l","a","n"," ">>, <<>>, <<10>>, <<>>),
      Entry(<<"h","t","t","p",":","/","/","r","t","s",".","r","s","/","b">>, <<"c","o","u","r","t"," ","b","r","i","b","e","r","y">>, <<>>, <<9>>, <<>>),
      Entry(<<"h","t","t","p",":","/","/","e","u","r","o","p","a",".","e","u","/","c">>, <<"K","e","n","y","a"," ","S","r","b","i","j","a"," ","i","n","t","e","g","r","i","t","y">>, <<>>, <<>>, <<10>>),
      Entry(<<>>, <<"s","o","u","d"," ","S","e","r","b","i","a">>, <<>>, <<10>>, <<>>),
      Entry(<<"h","t","t","p",":","/","/","g","o","v",".","r","s","/","d">>, <<"S","e","r","b","i","a"," ","w","e","a","t","h","e","r">>, <<>>, <<10>>, <<>>),
      Entry(<<"h","t","t","p",":","/","/","g","o","v",".","r","s","/","e">>, <<"o","g","p">>, <<>>, <<>>, <<>>),
      Entry(<<"h","t","t","p",":","/","/","g","o","v",".","r","s","/","f">>, <<"o","g","p">>, <<>>, <<7>>, <<>>),
      Entry(<<>>, <<>>, <<"o","g","p"," ","s","e","r","b","i","a">>, <<10>>, <<>>),
      Entry(<<"h","t","t","p",":","/","/","b","l","o","g",".","r","s","/","g">>, <<"j","u","s","t","i","c","e">>, <<"i","n"," ","S","e","r","b","i","a">>, <<10>>, <<>>) }

\* a busy day: an old and an undated entry, then more acceptable entries for
\* Serbia than a block shows
Bulk ==
    << Entry(<<"h","t","t","p",":","/","/","g","o","v",".","r","s","/","o","l","d">>, <<"o","g","p">>, <<>>, <<7>>, <<>>),
       Entry(<<"h","t","t","p",":","/","/","g","o","v",".","r","s","/","u","n","d","a","t","e","d">>, <<"c","o","u","r","t">>, <<>>, <<>>, <<>>),
       Entry(<<"h","t","t","p",":","/","/","r","t","s",".","r","s","/","1">>, <<"c","o","u","r","t">>, <<>>, <<10>>, <<>>),
       Entry(<<"h","t","t","p",":","/","/","g","o","v",".","r","s","/","2">>, <<"o","g","p">>, <<>>, <<9>>, <<>>),
       Entry(<<"h","t","t","p",":","/","/","b","9","2",".","n","e","t","/","3">>, <<"c","o","u","r","t"," ","b","r","i","b","e","r","y">>, <<>>, <<9>>, <<>>),
       Entry(<<"h","t","t","p",":","/","/","p","a","r","l","a","m","e","n","t",".","r","s","/","4">>, <<"o","g","p"," ","i","n","t","e","g","r","i","t","y">>, <<>>, <<10>>, <<>>),
       Entry(<<"h","t","t","p",":","/","/","r","t","s",".","r","s","/","8">>, <<"s","o","u","d">>, <<>>, <<10>>, <<>>),
       Entry(<<"h","t","t","p",":","/","/","g","o","v",".","r","s","/","6">>, <<"j","u","s","t","i","c","e">>, <<>>, <<10>>, <<>>),
       Entry(<<"h","t","t","p",":","/","/","n","o","v","a",".","r","s","/","7">>, <<"o","g","p"," ","c","o","u","r","t"," ","b","r","i","b","e","r","y">>, <<>>, <<10>>, <<>>),
       Entry(<<"h","t","t","p",":","/","/","d","a","n","a","s",".","r","s","/","5">>, <<"b","r","i","b","e","r","y">>, <<>>, <<9>>, <<>>) >>

\* the entry sequences the fetches of one query label can deliver together,
\* given how many entries the upstream still returns in this run
\* the heads and the tails of a sequence
Ends(s) ==
    {SubSeq(s, 1, j) : j \in 0..Len(s)} \cup {SubSeq(s, i, Len(s)) : i \in 1..Len(s)}

\* a story of interest to two countries next to a government release, an
\* off-theme and an undated entry
Shared ==
    {e \in Probe : e.link \in {<<"h","t","t","p","s",":","/","/","w","w","w",".","g","o","v",".","r","s","/","a">>, <<"h","t","t","p",":","/","/","e","u","r","o","p","a",".","e","u","/","c">>,
                               <<"h","t","t","p",":","/","/","g","o","v",".","r","s","/","d">>, <<"h","t","t","p",":","/","/","g","o","v",".","r","s","/","e">>}}

\* a release of a foreign government about both countries: its host looks
\* like a government host and is on no list, under no local TLD
Abroad ==
    {Entry(<<"h","t","t","p",":","/","/","g","o","v",".","m","e","/","h">>, <<"S","e","r","b","i","a"," ","K","e","n","y","a"," ","c","o","u","r","t">>, <<>>, <<10>>, <<>>)}

\* a story the unlisted country is served first, next to a report of a media
\* site of the listed one
Claimed ==
    {e \in Probe : e.link \in {<<"h","t","t","p",":","/","/","e","u","r","o","p","a",".","e","u","/","c">>, <<"h","t","t","p",":","/","/","r","t","s",".","r","s","/","b">>}}

\* a report of a lender on GLOBAL_ALLOWED about both countries
Lender ==
    {Entry(<<"h","t","t","p",":","/","/","w","w","w",".","w","o","r","l","d","b","a","n","k",".","o","r","g","/","w">>, <<"S","e","r","b","i","a"," ","K","e","n","y","a"," ","i","n","t","e","g","r","i","t","y">>, <<>>,
           <<10>>, <<>>)}

Streams(feed, left) ==
    IF feed = "probe"
    THEN UNION {[1..n -> Probe] : n \in 0..left}
    ELSE IF feed = "shared"
    THEN UNION {[1..n -> Shared] : n \in 0..left}
    ELSE IF feed = "abroad"
    THEN UNION {[1..n -> Abroad] : n \in 0..left}
    ELSE IF feed = "claimed"
    THEN UNION {[1..n -> Claimed] : n \in 0..left}
    ELSE IF feed = "lender"
    THEN UNION {[1..n -> Lender] : n \in 0..left}
    ELSE {s \in Ends(Bulk) : Len(s) <= left}

\* the readings of the clock
Clock == {10, 11}

InputCountries == {Serbia, Kenya}

CountryLists == UNION {[1..n -> InputCountries] : n \in 0..MaxCountries}

Hours == {1, 2}

\* the UTC offsets of the time zone the process runs in
Zones == {-1, 0}

\* ORYX_THEMES unset, or narrowing to one theme
ThemeSettings == {{}, {"Justice"}}

\* the runs.  On the probing feed: every country list with each window, and
\* with verified_only set; the lists of at most one country with the theme
\* restriction and with a local time zone west of UTC.  A listed and an
\* unlisted country on the shared feed, one country given twice on the
\* busy feed, the unlisted country before the listed one on the feed
\* with the story both are served, and each country alone on the feeds with
\* the foreign government's release and with the lender's report.
Configs ==
    [countries : CountryLists, hours : Hours, verified_only : {FALSE},
     themes : {{}}, tz : {0}, profile : {"probe"}, quota : {MaxEntries}]
    \cup
    [countries : CountryLists, hours : {2}, verified_only : {TRUE},
     themes : {{}}, tz : {0}, profile : {"probe"}, quota : {MaxEntries}]
    \cup
    [countries : {l \in CountryLists : Len(l) <= 1}, hours : {2},
     verified_only : {FALSE}, themes : ThemeSettings, tz : Zones,
     profile : {"probe"}, quota : {MaxEntries}]
    \cup
    [countries : {<<Serbia, Kenya>>}, hours : {2}, verified_only : BOOLEAN,
     themes : {{}}, tz : {0}, profile : {"shared"},
     quota : {Cardinality(Shared)}]
    \cup
    [countries : {<<Serbia, Serbia>>}, hours : {2}, verified_only : {FALSE},
     themes : {{}}, tz : {0}, profile : {"bulk"}, quota : {Len(Bulk) - 2}]
    \cup
    [countries : {<<Serbia>>, <<Kenya>>}, hours : {2}, verified_only : BOOLEAN,
     themes : {{}}, tz : {0}, profile : {"abroad"}, quota : {Cardinality(Abroad)}]
    \cup
    [countries : {<<Kenya, Serbia>>}, hours : {2}, verified_only : BOOLEAN,
     themes : {{}}, tz : {0}, profile : {"claimed"},
     quota : {Cardinality(Claimed) + 1}]
    \cup
    [countries : {<<Serbia>>, <<Kenya>>}, hours : {2}, verified_only : {FALSE},
     themes : {{}}, tz : {0}, profile : {"lender"},
     quota : {Cardinality(Lender)}]

\* every entry a fetch can return
Feed == Probe \cup {Bulk[i] : i \in 1..Len(Bulk)} \cup Abroad \cup Lender

\* the cutoffs a run can compute
Cutoffs == {t - h : t \in Clock, h \in Hours}

\* The per-entry results, computed once for every entry of the feed and
\* looked up by the loops below.
TargetedMemo ==
    [c \in InputCountries, z \in Zones, k \in Cutoffs, en \in ThemeSettings,
     l \in {"verified", "media", "generic"}, e \in Feed |->
        TargetedItem(c, z, k, en, l, e)]

FallbackAMemo ==
    [c \in InputCountries, z \in Zones, k \in Cutoffs, en \in ThemeSettings, e \in Feed |->
        FallbackAItem(c, z, k, en, e)]

FallbackBMemo ==
    [c \in InputCountries, z \in Zones, k \in Cutoffs, en \in ThemeSettings, e \in Feed |->
        FallbackBItem(c, z, k, en, e)]

\* history: why the recency test or the theme gate skips an entry, <<>>
\* when neither does; an undated entry is recorded with time 0
SkipReason(zone, cut, enabled, e) ==
    LET dt == _ts(e, zone)
        f == Fields(e)
    IN  IF dt = <<>> THEN <<[why |-> "undated", time |-> 0]>>
        ELSE IF ~Fresh(dt, cut) THEN <<[why |-> "stale", time |-> dt[1]]>>
        ELSE IF _match_themes(f.title \o <<" ">> \o f.summary, enabled) = <<>>
        THEN <<[why |-> "theme", time |-> dt[1]]>>
        ELSE <<>>

SkipMemo ==
    [z \in Zones, k \in Cutoffs, en \in ThemeSettings, e \in Feed |->
        SkipReason(z, k, en, e)]

\* history: what a stage skipped in a stream
Skipped(stage, zone, cut, enabled, stream) ==
    {[stage |-> stage, why |-> SkipMemo[zone, cut, enabled, stream[i]][1].why,
      time |-> SkipMemo[zone, cut, enabled, stream[i]][1].time] :
        i \in {j \in 1..Len(stream) : SkipMemo[zone, cut, enabled, stream[j]] # <<>>}}

\* the entries of a stream run through one stage, appended to the two lists
RECURSIVE CollectTargeted(_, _, _, _, _, _, _)
CollectTargeted(acc, country, zone, cut, enabled, label, stream) ==
    IF stream = <<>> THEN acc
    ELSE LET got == TargetedMemo[country, zone, cut, enabled, label, Head(stream)]
             nxt == IF got = <<>> THEN acc
                    ELSE IF got[1].verified
                    THEN [acc EXCEPT !.verified = Append(@, got[1])]
                    ELSE [acc EXCEPT !.media = Append(@, got[1])]
         IN  CollectTargeted(nxt, country, zone, cut, enabled, label, Tail(stream))

RECURSIVE CollectFallbackA(_, _, _, _, _, _)
CollectFallbackA(acc, country, zone, cut, enabled, stream) ==
    IF stream = <<>> THEN acc
    ELSE LET got == FallbackAMemo[country, zone, cut, enabled, Head(stream)]
         IN  CollectFallbackA(acc \o got, country, zone, cut, enabled, Tail(stream))

RECURSIVE CollectFallbackB(_, _, _, _, _, _)
CollectFallbackB(acc, country, zone, cut, enabled, stream) ==
    IF stream = <<>> THEN acc
    ELSE LET got == FallbackBMemo[country, zone, cut, enabled, Head(stream)]
         IN  CollectFallbackB(acc \o got, country, zone, cut, enabled, Tail(stream))

\* the labels of the query sets of a country, in the order the dict of
\* _build_queries yields them
QueryLabels(country) ==
    IF country \in DOMAIN COUNTRY_CONF THEN <<"verified", "media">>
    ELSE <<"generic">>

(* ------------------------------------------------------------------ *)
(* generate_digest: the loop body after _collect_for returns            *)
(* ------------------------------------------------------------------ *)
\* the loop without "global_seen.add(key)": nothing is ever claimed
GlobalDedupeNoAdd(items, seen, kept) ==
    [unique |-> kept \o SelectSeq(items, LAMBDA it : KeyOf(it) \notin seen),
     seen |-> seen]

\* the loop with the set of keys created afresh for every country
RECURSIVE GlobalDedupePerCountry(_, _, _)
GlobalDedupePerCountry(items, seen, kept) ==
    IF items = <<>> THEN [unique |-> kept, seen |-> seen]
    ELSE LET key == KeyOf(Head(items))
         IN  IF \E i \in 1..Len(kept) : KeyOf(kept[i]) = key
             THEN GlobalDedupePerCountry(Tail(items), seen, kept)
             ELSE GlobalDedupePerCountry(Tail(items), seen \cup {key},
                                         Append(kept, Head(items)))

\* the loop claiming a key only while the kept items fit the display
RECURSIVE GlobalDedupeShownOnly(_, _, _)
GlobalDedupeShownOnly(items, seen, kept) ==
    IF items = <<>> THEN [unique |-> kept, seen |-> seen]
    ELSE LET key == KeyOf(Head(items))
         IN  IF key \in seen THEN GlobalDedupeShownOnly(Tail(items), seen, kept)
             ELSE GlobalDedupeShownOnly(
                      Tail(items),
                      IF Len(kept) < DisplayCap THEN seen \cup {key} ELSE seen,
                      Append(kept, Head(items)))

\* the cross-country de-duplication loop: the kept items and the new set
RECURSIVE GlobalDedupe(_, _, _)
GlobalDedupe(items, seen, kept) ==
    IF items = <<>> THEN [unique |-> kept, seen |-> seen]
    ELSE LET key == KeyOf(Head(items))
         IN  IF key \in seen THEN GlobalDedupe(Tail(items), seen, kept)
             ELSE GlobalDedupe(Tail(items), seen \cup {key},
                               Append(kept, Head(items)))

\* the sort key without its first component
KeyLessNoTier(a, b) ==
    \/ Len(a.themes) < Len(b.themes)
    \/ Len(a.themes) = Len(b.themes) /\ a.time < b.time

\* the sort key with the time negated
KeyLessOldestFirst(a, b) ==
    LET va == IF a.verified THEN 1 ELSE 0
        vb == IF b.verified THEN 1 ELSE 0
    IN  \/ va < vb
        \/ va = vb /\ Len(a.themes) < Len(b.themes)
        \/ va = vb /\ Len(a.themes) = Len(b.themes) /\ a.time > b.time

\* the sort key (verified, number of themes, time), compared as tuples
KeyLess(a, b) ==
    LET va == IF a.verified THEN 1 ELSE 0
        vb == IF b.verified THEN 1 ELSE 0
    IN  \/ va < vb
        \/ va = vb /\ Len(a.themes) < Len(b.themes)
        \/ va = vb /\ Len(a.themes) = Len(b.themes) /\ a.time < b.time

\* x inserted before the first element of a descending sequence that is
\* strictly smaller
InsertDesc(sorted, x) ==
    LET below == {i \in 1..Len(sorted) : KeyLess(sorted[i], x)}
        p == IF below = {} THEN Len(sorted) + 1
             ELSE CHOOSE i \in below : \A j \in below : i <= j
    IN  SubSeq(sorted, 1, p - 1) \o <<x>> \o SubSeq(sorted, p, Len(sorted))

\* list.sort(key=..., reverse=True): stable, largest key first
RECURSIVE SortRanked(_)
SortRanked(items) ==
    IF items = <<>> THEN <<>>
    ELSE InsertDesc(SortRanked(SubSeq(items, 1, Len(items) - 1)),
                    items[Len(items)])

\* the first n elements of s
Take(s, n) == SubSeq(s, 1, IF Len(s) < n THEN Len(s) ELSE n)

\* Counter(values).most_common(3): the distinct values in order of first
\* occurrence, stably sorted by count, largest first, cut to three
RECURSIVE Distinct(_)
Distinct(s) ==
    IF s = <<>> THEN <<>>
    ELSE LET front == Distinct(SubSeq(s, 1, Len(s) - 1))
             x == s[Len(s)]
         IN  IF \E i \in 1..Len(front) : front[i] = x THEN front
             ELSE Append(front, x)

Count(s, x) == Cardinality({i \in 1..Len(s) : s[i] = x})

InsertCount(sorted, c) ==
    LET below == {i \in 1..Len(sorted) : sorted[i].n < c.n}
        p == IF below = {} THEN Len(sorted) + 1
             ELSE CHOOSE i \in below : \A j \in below : i <= j
    IN  SubSeq(sorted, 1, p - 1) \o <<c>> \o SubSeq(sorted, p, Len(sorted))

RECURSIVE SortCounts(_)
SortCounts(cs) ==
    IF cs = <<>> THEN <<>>
    ELSE InsertCount(SortCounts(SubSeq(cs, 1, Len(cs) - 1)), cs[Len(cs)])

most_common3(s) ==
    LET d == Distinct(s)
    IN  Take(SortCounts([i \in 1..Len(d) |-> [v |-> d[i], n |-> Count(s, d[i])]]), 3)

\* the themes of all items, concatenated in order
RECURSIVE AllThemes(_)
AllThemes(items) ==
    IF items = <<>> THEN <<>>
    ELSE Head(items).themes \o AllThemes(Tail(items))

ItemLine(it) ==
    [kind |-> "item", badge |-> IF it.verified THEN "verified" ELSE "media",
     title |-> it.title, link |-> it.link, domain |-> it.domain,
     themes |-> it.themes]

NoItemsLine ==
    [kind |-> "noitems", badge |-> "", title |-> <<>>, link |-> <<>>,
     domain |-> <<>>, themes |-> <<>>]

\* "for it in unique[:6]"
Shown(ranked) == Take(ranked, DisplayCap)

\* the block with the metrics taken after the truncation
BuildBlockShownMetrics(c, unique) ==
    LET shown == Shown(SortRanked(unique))
        total == Len(shown)
        vcount == Cardinality({i \in 1..Len(shown) : shown[i].verified})
    IN  [country |-> c, total |-> total, vcount |-> vcount,
         mcount |-> total - vcount,
         top_src |-> IF total > 0
                     THEN most_common3([i \in 1..Len(shown) |-> shown[i].domain])
                     ELSE <<>>,
         top_themes |-> IF total > 0 THEN most_common3(AllThemes(shown))
                        ELSE <<>>,
         lines |-> IF unique = <<>> THEN <<NoItemsLine>>
                   ELSE [i \in 1..Len(shown) |-> ItemLine(shown[i])]]

\* the block of one country: the header with its metrics and the lines
\* under it; ranked is the whole pool after the sort
BuildBlock(c, unique) ==
    LET total == Len(unique)
        vcount == Cardinality({i \in 1..Len(unique) : unique[i].verified})
        shown == Shown(SortRanked(unique))
    IN  [country |-> c, total |-> total, vcount |-> vcount,
         mcount |-> total - vcount,
         top_src |-> IF total > 0
                     THEN most_common3([i \in 1..Len(unique) |-> unique[i].domain])
                     ELSE <<>>,
         top_themes |-> IF total > 0 THEN most_common3(AllThemes(unique))
                        ELSE <<>>,
         lines |-> IF unique = <<>> THEN <<NoItemsLine>>
                   ELSE [i \in 1..Len(shown) |-> ItemLine(shown[i])]]

(* ------------------------------------------------------------------ *)
(* The text of the digest and of the message (generate_digest,         *)
(* build_message of app_cli.py)                                        *)
(* ------------------------------------------------------------------ *)
\* characters outside ASCII, one element of the text each
EmDash == "EM DASH"
Bullet == "BULLET"
CheckMark == "WHITE HEAVY CHECK MARK"
Newspaper == "NEWSPAPER"
NL == "\n"

DigitChars == <<"0", "1", "2", "3", "4", "5", "6", "7", "8", "9">>

\* str(n) of a natural number
RECURSIVE Str(_)
Str(n) ==
    IF n < 10 THEN <<DigitChars[n + 1]>>
    ELSE Str(n \div 10) \o <<DigitChars[(n % 10) + 1]>>

\* the characters of a theme name
ThemeText ==
    ("Open Government" :> <<"O","p","e","n"," ","G","o","v","e","r","n","m","e","n","t">>) @@
    ("Anti-Corruption" :> <<"A","n","t","i","-","C","o","r","r","u","p","t","i","o","n">>) @@
    ("Justice" :> <<"J","u","s","t","i","c","e">>)

\* ", ".join(f"{v} ({n})" for v, n in counts), the values being texts
Tally(counts) ==
    Join([i \in 1..Len(counts) |->
             counts[i].v \o <<" ","(">> \o Str(counts[i].n) \o <<")">>],
         <<","," ">>)

\* the counts of themes with the names of the themes written out
ThemeCounts(counts) ==
    [i \in 1..Len(counts) |-> [v |-> ThemeText[counts[i].v], n |-> counts[i].n]]

\* the header line of a block
HeaderLine(b) ==
    <<"*">> \o b.country \o <<" ">> \o <<EmDash>> \o <<" ">> \o Str(b.total)
    \o <<" ","i","t","e","m","s"," ","(">> \o Str(b.vcount) \o <<CheckMark>> \o <<"/">>
    \o Str(b.mcount) \o <<Newspaper>> \o <<")">>
    \o (IF b.total > 0 THEN <<" ","|"," ","T","h","e","m","e","s",":"," ">> \o Tally(ThemeCounts(b.top_themes))
        ELSE <<>>)
    \o (IF b.total > 0 THEN <<" ","|"," ","T","o","p",":"," ">> \o Tally(b.top_src) ELSE <<>>)
    \o <<"*">>

\* one line under the header
LineText(l, h) ==
    IF l.kind = "noitems"
    THEN <<Bullet>> \o <<" ","N","o"," ","t","h","e","m","e","-","m","a","t","c","h","i","n","g"," ","i","t","e","m","s"," ","i","n"," ","t","h","e"," ","p","a","s","t"," ">> \o Str(h)
         \o <<"h",".">>
    ELSE <<Bullet>> \o <<" ">>
         \o <<IF l.badge = "verified" THEN CheckMark ELSE Newspaper>>
         \o <<" ">> \o l.title \o <<" ">> \o <<EmDash>> \o <<" ","<">> \o l.link
         \o <<"|">> \o l.domain \o <<">"," ","_","(","t","h","e","m","e","s",":"," ">>
         \o Join([i \in 1..Len(l.themes) |-> ThemeText[l.themes[i]]], <<","," ">>)
         \o <<")","_">>

\* "\n".join(lines) + "\n"
BlockText(b, h) ==
    Join(<<HeaderLine(b)>> \o [i \in 1..Len(b.lines) |-> LineText(b.lines[i], h)],
         <<NL>>) \o <<NL>>

\* header + "\n".join(blocks)
DigestText(bs, h) ==
    <<"C","o","u","n","t","r","y"," ","u","p","d","a","t","e","s"," ","(","p","a","s","t"," ">> \o Str(h) \o <<"h",")">> \o <<NL>>
    \o Join([i \in 1..Len(bs) |-> BlockText(bs[i], h)], <<NL>>)

\* the date of the title as strftime('%A, %d %B %Y') writes it, for one day
DateText == <<"S","u","n","d","a","y",","," ","0","1"," ","N","o","v","e","m","b","e","r"," ","2","0","2","6">>

\* f"{title}\n{sub}\n{body}" with no length test
build_message(cs, h, bs) ==
    <<"*","O","r","y","x"," ",":","l","a","r","g","e","_","o","r","a","n","g","e","_","c","i","r","c","l","e",":"," ">> \o <<EmDash>> \o <<" ">> \o DateText
    \o <<"*">> \o <<NL>>
    \o <<"_","C","o","u","n","t","r","i","e","s",":"," ">> \o Join(cs, <<","," ">>) \o <<"_">> \o <<NL>> \o <<NL>>
    \o DigestText(bs, h)

(* ------------------------------------------------------------------ *)
(* app_cli.py: json.loads on the texts of ORYX_CHANNELS_JSON            *)
(* ------------------------------------------------------------------ *)
\* the character at place i, "" past the end
At(s, i) == IF i >= 1 /\ i <= Len(s) THEN s[i] ELSE ""

\* s.startswith(p, i)
HasAt(s, i, p) ==
    /\ i + Len(p) - 1 <= Len(s)
    /\ SubSeq(s, i, i + Len(p) - 1) = p

\* the first place from i on that holds no JSON white space
RECURSIVE SkipWs(_, _)
SkipWs(s, i) == IF At(s, i) \in Whitespace THEN SkipWs(s, i + 1) ELSE i

\* values: [t |-> "dict", items |-> pairs in insertion order],
\* [t |-> "list", items |-> values], [t |-> "str", s |-> text],
\* [t |-> "int", digits |-> text], [t |-> "null"], [t |-> "bool", b |-> ..]
JNull == [t |-> "null"]
Failed == [ok |-> FALSE, value |-> JNull, next |-> 0]
Parsed(v, n) == [ok |-> TRUE, value |-> v, next |-> n]

\* a string without escape sequences, its opening quote at i
ParseString(s, i) ==
    LET ends == {j \in (i + 1)..Len(s) : s[j] = DQ}
    IN  IF At(s, i) # DQ \/ ends = {} THEN Failed
        ELSE LET j == CHOOSE e \in ends : \A k \in ends : e <= k
             IN  IF \E k \in (i + 1)..(j - 1) : s[k] \in {"\\", "\n"}
                 THEN Failed
                 ELSE Parsed([t |-> "str", s |-> SubSeq(s, i + 1, j - 1)], j + 1)

\* an integer: an optional minus sign, then digits with no leading zero
ParseInt(s, i) ==
    LET from == IF At(s, i) = "-" THEN i + 1 ELSE i
        stop == CHOOSE j \in from..(Len(s) + 1) :
                    /\ At(s, j) \notin Digits
                    /\ \A k \in from..(j - 1) : s[k] \in Digits
    IN  IF stop = from \/ (At(s, from) = "0" /\ stop > from + 1) THEN Failed
        ELSE Parsed([t |-> "int", digits |-> SubSeq(s, i, stop - 1)], stop)

\* dict[k] = v: a key met again keeps its place and takes the new value
DictSet(items, k, v) ==
    IF \E i \in 1..Len(items) : items[i].k = k
    THEN [i \in 1..Len(items) |->
             IF items[i].k = k THEN [k |-> k, v |-> v] ELSE items[i]]
    ELSE Append(items, [k |-> k, v |-> v])

RECURSIVE ParseValue(_, _), ParseMembers(_, _, _), ParseElements(_, _, _)

\* one value, white space before it skipped
ParseValue(s, i) ==
    LET j == SkipWs(s, i)
        c == At(s, j)
    IN  IF c = "{"
        THEN IF At(s, SkipWs(s, j + 1)) = "}"
             THEN Parsed([t |-> "dict", items |-> <<>>], SkipWs(s, j + 1) + 1)
             ELSE ParseMembers(s, j + 1, <<>>)
        ELSE IF c = "["
        THEN IF At(s, SkipWs(s, j + 1)) = "]"
             THEN Parsed([t |-> "list", items |-> <<>>], SkipWs(s, j + 1) + 1)
             ELSE ParseElements(s, j + 1, <<>>)
        ELSE IF c = DQ THEN ParseString(s, j)
        ELSE IF c \in Digits \cup {"-"} THEN ParseInt(s, j)
        ELSE IF HasAt(s, j, <<"n","u","l","l">>) THEN Parsed(JNull, j + 4)
        ELSE IF HasAt(s, j, <<"t","r","u","e">>)
        THEN Parsed([t |-> "bool", b |-> TRUE], j + 4)
        ELSE IF HasAt(s, j, <<"f","a","l","s","e">>)
        THEN Parsed([t |-> "bool", b |-> FALSE], j + 5)
        ELSE Failed

\* "key": value pairs up to the closing brace
ParseMembers(s, i, acc) ==
    LET key == ParseString(s, SkipWs(s, i))
    IN  IF ~key.ok \/ At(s, SkipWs(s, key.next)) # ":" THEN Failed
        ELSE LET val == ParseValue(s, SkipWs(s, key.next) + 1)
                 j == SkipWs(s, val.next)
                 items == DictSet(acc, key.value.s, val.value)
             IN  IF ~val.ok THEN Failed
                 ELSE IF At(s, j) = "," THEN ParseMembers(s, j + 1, items)
                 ELSE IF At(s, j) = "}"
                 THEN Parsed([t |-> "dict", items |-> items], j + 1)
                 ELSE Failed

\* values up to the closing bracket
ParseElements(s, i, acc) ==
    LET val == ParseValue(s, i)
        j == SkipWs(s, val.next)
    IN  IF ~val.ok THEN Failed
        ELSE IF At(s, j) = "," THEN ParseElements(s, j + 1, Append(acc, val.value))
        ELSE IF At(s, j) = "]"
        THEN Parsed([t |-> "list", items |-> Append(acc, val.value)], j + 1)
        ELSE Failed

\* json.loads(s): the value of the whole text, or a JSONDecodeError
json_loads(s) ==
    LET r == ParseValue(s, 1)
    IN  IF r.ok /\ SkipWs(s, r.next) = Len(s) + 1
        THEN [ok |-> TRUE, value |-> r.value]
        ELSE [ok |-> FALSE, value |-> JNull]

(* ------------------------------------------------------------------ *)
(* app_cli.py: load_channels_config                                    *)
(* ------------------------------------------------------------------ *)
JStr(s) == [t |-> "str", s |-> s]
JList(l) == [t |-> "list", items |-> [i \in 1..Len(l) |-> JStr(l[i])]]

\* the built-in mapping
default_map ==
    [t |-> "dict",
     items |->
       <<[k |-> <<"n","e","w","s","-","a","m","e">>,
          v |-> JList(<<<<"B","e","n","i","n">>, <<"M","o","r","o","c","c","o">>,
                        <<"C">> \o <<"O WITH CIRCUMFLEX">> \o <<"t","e"," ","d">>
                          \o <<"RIGHT SINGLE QUOTATION MARK">> \o <<"I","v","o","i","r","e">>,
                        <<"S","e","n","e","g","a","l">>, <<"T","u","n","i","s","i","a">>, <<"B","u","r","k","i","n","a"," ","F","a","s","o">>,
                        <<"G","h","a","n","a">>, <<"L","i","b","e","r","i","a">>, <<"J","o","r","d","a","n">>>>)],
         [k |-> <<"n","e","w","s","-","c","t","r","l","-","e","u","r">>,
          v |-> JList(<<<<"A","u","s","t","r","i","a">>, <<"B","o","s","n","i","a"," ","a","n","d"," ","H","e","r","z","e","g","o","v","i","n","a">>,
                        <<"C","z","e","c","h"," ","R","e","p","u","b","l","i","c">>, <<"M","a","l","t","a">>, <<"S","e","r","b","i","a">>,
                        <<"S","l","o","v","a","k","i","a">>>>)]>>]

\* the environment variable: absent, or a text
Unset == [set |-> FALSE, text |-> <<>>]
Text(s) == [set |-> TRUE, text |-> s]

\* the values of ORYX_CHANNELS_JSON tried
ChannelTexts ==
    { <<>>,
      <<" ">>,
      <<"{","}">>,
      <<"{">> \o Quoted(<<"n","e","w","s","-","a","m","e">>) \o <<":"," ","[">> \o Quoted(Serbia) \o <<"]","}">>,
      <<"{"," ">> \o Quoted(<<"C","0","1","2","3","A","B","C","D","E">>) \o <<" ",":"," ","[">> \o Quoted(Serbia)
        \o <<","," ">> \o Quoted(Kenya) \o <<"]",","," ">> \o Quoted(<<"n","e","w","s","-","a","m","e">>)
        \o <<":"," ","[","]","}">>,
      <<"{">> \o Quoted(<<"n","e","w","s","-","a","m","e">>) \o <<":"," ","[">> \o Quoted(Serbia),
      <<"{">> \o Quoted(<<"n","e","w","s","-","a","m","e">>) \o <<":"," ","[">> \o Quoted(Serbia) \o <<"]","}"," ","x">>,
      <<"{">> \o Quoted(<<"n","e","w","s","-","a","m","e">>) \o <<":"," ">> \o Quoted(Serbia) \o <<"}">>,
      <<"{">> \o Quoted(<<"n","e","w","s","-","a","m","e">>) \o <<":"," ","[">> \o Quoted(Serbia) \o <<"]",","," ">>
        \o Quoted(<<"x">>) \o <<":"," ","3","}">>,
      <<"{">> \o Quoted(<<"n","e","w","s","-","a","m","e">>) \o <<":"," ","n","u","l","l",","," ">> \o Quoted(<<"x">>)
        \o <<":"," ","[","]","}">>,
      <<"[">> \o Quoted(Serbia) \o <<"]">>,
      Quoted(<<"n","e","w","s","-","a","m","e">>),
      <<"n","u","l","l">>,
      <<"7">>,
      <<"{","n","e","w","s","-","a","m","e",":"," ","[","]","}">> }

RawValues == {Unset} \cup {Text(s) : s \in ChannelTexts}

\* the exception a run of the body of the try raises, "" when it returns
BodyRaises(r) ==
    IF ~r.ok THEN "JSONDecodeError"
    ELSE IF r.value.t # "dict" THEN "AssertionError"
    ELSE IF \E i \in 1..Len(r.value.items) : r.value.items[i].v.t # "list"
    THEN "AssertionError"
    ELSE ""

\* the function with "except json.JSONDecodeError" for "except Exception"
load_channels_configNarrowHandler(raw) ==
    IF ~raw.set \/ raw.text = <<>>
    THEN [raised |-> "", value |-> default_map]
    ELSE LET r == json_loads(raw.text)
             exc == BodyRaises(r)
         IN  IF exc = "" THEN [raised |-> "", value |-> r.value]
             ELSE IF exc = "JSONDecodeError"
             THEN [raised |-> "", value |-> default_map]
             ELSE [raised |-> exc, value |-> JNull]

\* what a call returns (value) or raises (raised)
load_channels_config(raw) ==
    IF ~raw.set \/ raw.text = <<>>
    THEN [raised |-> "", value |-> default_map]
    ELSE LET r == json_loads(raw.text)
             exc == BodyRaises(r)
         IN  IF exc = "" THEN [raised |-> "", value |-> r.value]
             ELSE [raised |-> "", value |-> default_map]

(* ------------------------------------------------------------------ *)
(* app_cli.py: post_to_slack and its helpers                           *)
(* ------------------------------------------------------------------ *)
\* ID_RE.match(s): C or G, then eight or more capitals or digits
ID_RE(s) ==
    /\ Len(s) >= 9
    /\ s[1] \in {"C", "G"}
    /\ \A i \in 2..Len(s) :
          s[i] \in {UpperCase[k] : k \in 1..Len(UpperCase)} \cup Digits

\* the search of _resolve_channel_id in the channels listed: the id of
\* the first channel of that name, <<>> for None
FindChannel(chans, name) ==
    LET n == LStrip(name, {"#"})
        at == {i \in 1..Len(chans) : chans[i].name = n}
    IN  IF at = {} THEN <<>>
        ELSE chans[CHOOSE i \in at : \A j \in at : i <= j].id

\* f"#{name.lstrip('#')}"
HashName(name) == <<"#">> \o LStrip(name, {"#"})

\* the dedupe_minutes default of post_to_slack
DedupeMinutes == 180

\* what conversations_history(oldest = now - minutes * 60, limit = 50)
\* returns: the channels tried hold fewer than 50 messages
Recent(messages, minutes) == SelectSeq(messages, LAMBDA m : m.age < minutes)

\* the guard with no comparison made: never a duplicate
already_postedNever(messages, want) == FALSE

\* "if m.get('text', '').strip() == want: return True", want = text.strip()
already_posted(messages, want) ==
    \E i \in 1..Len(messages) : Strip(messages[i].text) = Strip(want)

\* how a call of the Slack API ends: it returns, it raises SlackApiError,
\* or it raises something else (the connection fails)
ApiOutcomes == {"ok", "SlackApiError", "Exception"}

\* inputs of the calls
Targets == {<<"C","0","1","2","3","A","B","C","D","E">>, <<"n","e","w","s","-","a","m","e">>, <<"#","n","e","w","s","-","a","m","e">>}
MessageTexts == {<<"d","i","g","e","s","t">> \o <<"\n">>, <<"o","t","h","e","r">>}
Posted ==
    {[text |-> <<"d","i","g","e","s","t">>, age |-> 60], [text |-> <<" ","d","i","g","e","s","t"," ">>, age |-> 240],
     [text |-> <<"d","i","g","e","s","t",".">>, age |-> 60]}
Channels ==
    {<<>>} \cup {<<m>> : m \in Posted}
    \cup {<<[text |-> <<"d","i","g","e","s","t",".">>, age |-> 60], [text |-> <<"d","i","g","e","s","t">>, age |-> 60]>>}
Listings ==
    {<<>>, <<[name |-> <<"n","e","w","s","-","a","m","e">>, id |-> <<"C","0","1","2","3","A","B","C","D","E">>]>>}

(* ------------------------------------------------------------------ *)
(* slack_blocks.py: build_blocks                                       *)
(* ------------------------------------------------------------------ *)
_section(text) ==
    [type |-> "section", text |-> [type |-> "mrkdwn", text |-> text]]

_divider == [type |-> "divider"]

\* the text of one country's section
CountryText(c) ==
    LET bullets == IF c.items # <<>> THEN Join(c.items, <<NL>>)
                   ELSE <<"_","N","o"," ","v","e","r","i","f","i","e","d"," ","i","t","e","m","s"," ","i","n"," ","t","h","e"," ","p","a","s","t"," ","2","4","h",".","_">>
    IN  <<"*">> \o c.name \o <<"*">> \o <<NL>> \o bullets

\* the loop over ordered
RECURSIVE CountryBlocks(_)
CountryBlocks(ordered) ==
    IF ordered = <<>> THEN <<>>
    ELSE <<_section(CountryText(ordered[1])), _divider>>
         \o CountryBlocks(Tail(ordered))

\* the text of one opportunity; note holds its text when the key is there
OpportunityLine(i, opp) ==
    <<"*">> \o Str(i) \o <<"."," ">> \o opp.title \o <<"*">> \o <<NL>>
    \o <<Bullet>> \o <<" ","R","e","l","e","v","a","n","c","e",":"," ">> \o opp.relevance \o <<" "," ">>
    \o <<Bullet>> \o <<" ","A","m","b","i","t","i","o","n",":"," ">> \o opp.ambition \o <<" "," ">>
    \o <<Bullet>> \o <<" ","L","i","k","e","l","i","h","o","o","d",":"," ">> \o opp.likelihood \o <<" "," ">>
    \o <<Bullet>> \o <<" ","T","i","m","e"," ","c","o","s","t",":"," ">> \o opp.time \o <<NL>>
    \o <<"_","N","o","t","e","_",":"," ">> \o (IF opp.note = <<>> THEN <<EmDash>> ELSE opp.note[1])

build_blocks(title, digest) ==
    LET head == <<_section(<<"*">> \o title \o <<"*">>), _divider,
                  _section(<<"*","C","o","u","n","t","r","y"," ","u","p","d","a","t","e","s"," ","(","p","a","s","t"," ","2","4","h",")","*">>)>>
        non_empty == SelectSeq(digest.countries, LAMBDA c : c.items # <<>>)
        empty == SelectSeq(digest.countries, LAMBDA c : c.items = <<>>)
        ordered == non_empty \o empty
        subregional ==
            IF digest.subregional # <<>>
            THEN <<_section(<<"*","S","u","b","r","e","g","i","o","n","a","l","*">>),
                   _section(Join(digest.subregional, <<NL>>)), _divider>>
            ELSE <<>>
        international ==
            IF digest.international # <<>>
            THEN <<_section(<<"*","I","n","t","e","r","n","a","t","i","o","n","a","l","*">>),
                   _section(Join(digest.international, <<NL>>)), _divider>>
            ELSE <<>>
        opps == digest.analysis.opportunities
        analysis ==
            IF opps # <<>>
            THEN [i \in 1..Len(opps) |-> _section(OpportunityLine(i, opps[i]))]
            ELSE <<_section(<<"_","N","o"," ","h","i","g","h","-","s","i","g","n","a","l"," ","o","p","p","o","r","t","u","n","i","t","i","e","s"," ","t","o","d","a","y",".","_">>)>>
    IN  head \o CountryBlocks(ordered) \o subregional \o international
        \o <<_section(<<"*","A","s","s","i","s","t","a","n","t"," ","t","e","a","m"," ","a","n","a","l","y","s","i","s"," ">> \o <<EmDash>>
                      \o <<" ","d","e","c","i","s","i","o","n"," ","m","a","t","r","i","x","*">>)>>
        \o analysis
        \o <<_divider,
             _section(<<"*","S","i","n","g","l","e"," ","m","o","s","t"," ","p","r","o","m","i","s","i","n","g"," ","o","p","p","o","r","t","u","n","i","t","y","*",":"," ">>
                      \o digest.analysis.top_pick)>>

\* the arguments build_blocks is called with
BulletItems == <<<<Bullet>> \o <<" ","a">>, <<Bullet>> \o <<" ","b">>>>
\* lists of countries, each country once
CountrySeqs ==
    LET entries == [name : {Serbia, Kenya, <<"B","e","n","i","n">>},
                    items : {SubSeq(BulletItems, 1, n) :
                                n \in 0..Len(BulletItems)}]
    IN  {cs \in UNION {[1..n -> entries] : n \in 0..MaxCountries} :
            \A i, j \in 1..Len(cs) : cs[i].name = cs[j].name => i = j}
Opportunities ==
    <<[title |-> <<"O","G","D"," ","p","o","r","t","a","l">>, relevance |-> <<"H","i","g","h">>,
       ambition |-> <<"M","e","d">>, likelihood |-> <<"H","i","g","h">>, time |-> <<"L","o","w">>,
       note |-> <<<<"p","i","l","o","t">>>>],
      [title |-> <<"A","u","d","i","t"," ","l","a","w">>, relevance |-> <<"M","e","d">>,
       ambition |-> <<"H","i","g","h">>, likelihood |-> <<"L","o","w">>, time |-> <<"M","e","d">>,
       note |-> <<>>]>>
Digests ==
    [countries : CountrySeqs,
     subregional : {<<>>, <<BulletItems[1]>>},
     international : {<<>>, BulletItems},
     analysis : [opportunities : {SubSeq(Opportunities, 1, n) :
                                     n \in 0..Len(Opportunities)},
                 top_pick : {<<"O","G","D"," ","p","o","r","t","a","l">>}]]
NoDigest ==
    [countries |-> <<>>, subregional |-> <<>>, international |-> <<>>,
     analysis |-> [opportunities |-> <<>>, top_pick |-> <<>>]]

(* ------------------------------------------------------------------ *)
(* State                                                               *)
(* ------------------------------------------------------------------ *)
VARIABLES
    countries,       \* the countries argument
    hours,           \* the hours argument
    verified_only,   \* the verified_only argument
    ENABLED_THEMES,  \* the module global set from ORYX_THEMES
    tz,              \* the UTC offset of the local time zone
    profile,         \* which feed the upstream serves
    quota,           \* entries the upstream still returns in this run
    now,             \* the last reading of the clock
    pc,              \* where the run is
    ci,              \* index of the country being processed
    cutoff,          \* cutoff of the current _collect_for call
    verified,        \* the list verified of _collect_for
    media,           \* the list media of _collect_for
    global_seen,     \* the run-scoped set of identity keys
    blocks,          \* the blocks built so far
    ran,             \* history: stages run for the current country
    taken,           \* history: items each stage appended for the current country
    skipped,         \* history: entries skipped as undated, stale or off-theme
    log,             \* history: one record per finished country
    raw,             \* app_cli: the environment variable ORYX_CHANNELS_JSON
    lpc,             \* app_cli: where the call of load_channels_config is
    channels_map,    \* app_cli: what load_channels_config returned
    channel_target,  \* post_to_slack: the channel_target argument
    msg,             \* post_to_slack: the text argument (msg of main)
    channel,         \* the messages of the channel, with their age in minutes
    listing,         \* the channels conversations_list shows the bot
    ppc,             \* where the call of post_to_slack is
    cid,             \* the channel id _already_posted_recently reads
    target,          \* the channel the post goes to
    hist,            \* history: the messages conversations_history returned
    lookup,          \* history: how the call of conversations_history ended
    calls,           \* history: the API methods called, in order
    printed,         \* the tag of the line post_to_slack printed
    btitle,          \* slack_blocks: the title argument of build_blocks
    bdigest,         \* slack_blocks: the digest argument of build_blocks
    bpc,             \* slack_blocks: where the call of build_blocks is
    bblocks          \* slack_blocks: the list build_blocks returned

digest_vars ==
    <<countries, hours, verified_only, ENABLED_THEMES, tz, profile, quota, now,
      pc, ci, cutoff, verified, media, global_seen, blocks, ran, taken,
      skipped, log>>

cli_vars ==
    <<raw, lpc, channels_map, channel_target, msg, channel, listing, ppc, cid,
      target, hist, lookup, calls, printed>>

slack_vars == <<btitle, bdigest, bpc, bblocks>>

vars == <<digest_vars, cli_vars, slack_vars>>

inputs == <<countries, hours, verified_only, ENABLED_THEMES, tz, profile>>

NoneTaken == [targeted |-> 0, a |-> 0, b |-> 0]

\* no call of app_cli.py is under way
CliIdle ==
    /\ raw = Unset
    /\ lpc = "idle"
    /\ channels_map = JNull
    /\ channel_target = <<>>
    /\ msg = <<>>
    /\ channel = <<>>
    /\ listing = <<>>
    /\ ppc = "idle"
    /\ cid = <<>>
    /\ target = <<>>
    /\ hist = <<>>
    /\ lookup = ""
    /\ calls = <<>>
    /\ printed = ""

\* no call of build_blocks is under way
SlackIdle ==
    /\ btitle = <<>>
    /\ bdigest = NoDigest
    /\ bpc = "idle"
    /\ bblocks = <<>>

Init ==
    \E cfg \in Configs :
        /\ countries = cfg.countries
        /\ hours = cfg.hours
        /\ verified_only = cfg.verified_only
        /\ ENABLED_THEMES = cfg.themes
        /\ tz = cfg.tz
        /\ profile = cfg.profile
        /\ quota = cfg.quota
        /\ now = 10
        /\ pc = "loop"
        /\ ci = 0
        /\ cutoff = 0
        /\ verified = <<>>
        /\ media = <<>>
        /\ global_seen = {}
        /\ blocks = <<>>
        /\ ran = {}
        /\ taken = NoneTaken
        /\ skipped = {}
        /\ log = <<>>
        /\ CliIdle
        /\ SlackIdle

(* ------------------------------------------------------------------ *)
(* Actions                                                             *)
(* ------------------------------------------------------------------ *)
\* "for c in countries": the next country; _collect_for reads the clock,
\* sets the cutoff and starts with the first query label
BeginCountry ==
    /\ pc = "loop"
    /\ ci < Len(countries)
    /\ \E t \in Clock :
        /\ t >= now
        /\ now' = t
        /\ cutoff' = t - hours
    /\ ci' = ci + 1
    /\ verified' = <<>>
    /\ media' = <<>>
    /\ ran' = {}
    /\ taken' = NoneTaken
    /\ skipped' = {}
    /\ pc' = Head(QueryLabels(countries[ci + 1]))
    /\ UNCHANGED <<cli_vars, slack_vars, inputs, quota, global_seen, blocks, log>>

\* the test "if not verified:" in place of "if not verified and not media:"
AfterTargetedVerifiedOnly(c, v, m) ==
    IF v = <<>>
    THEN IF c \in DOMAIN COUNTRY_CONF THEN "fallbackA" ELSE "fallbackB"
    ELSE "return"

\* the fallback (B) entered without fallback (A) before it
AfterTargetedSkipA(c, v, m) ==
    IF v = <<>> /\ m = <<>> THEN "fallbackB" ELSE "return"

\* where _collect_for goes once the targeted loops are over
AfterTargeted(c, v, m) ==
    IF v = <<>> /\ m = <<>>
    THEN IF c \in DOMAIN COUNTRY_CONF THEN "fallbackA" ELSE "fallbackB"
    ELSE "return"

\* the fetches and the entry loop of all queries of one label
FetchTargeted(stream) ==
    /\ pc \in {"verified", "media", "generic"}
    /\ LET c == countries[ci]
           acc == CollectTargeted([verified |-> verified, media |-> media], c,
                                  tz, cutoff, ENABLED_THEMES, pc, stream)
           labels == QueryLabels(c)
       IN  /\ verified' = acc.verified
           /\ media' = acc.media
           /\ taken' = [taken EXCEPT !.targeted =
                            @ + (Len(acc.verified) - Len(verified))
                              + (Len(acc.media) - Len(media))]
           /\ pc' = IF pc = "verified" THEN "media"
                    ELSE AfterTargeted(c, acc.verified, acc.media)
    /\ ran' = ran \cup {"targeted"}
    /\ skipped' = skipped \cup Skipped("targeted", tz, cutoff, ENABLED_THEMES, stream)
    /\ quota' = quota - Len(stream)
    /\ UNCHANGED <<cli_vars, slack_vars, inputs, now, ci, cutoff, global_seen, blocks, log>>

\* fallback (A): the site-only queries on the verified sites
FetchFallbackA(stream) ==
    /\ pc = "fallbackA"
    /\ LET c == countries[ci]
           v == CollectFallbackA(verified, c, tz, cutoff, ENABLED_THEMES, stream)
       IN  /\ verified' = v
           /\ taken' = [taken EXCEPT !.a = @ + (Len(v) - Len(verified))]
           /\ pc' = IF v = <<>> /\ media = <<>> THEN "fallbackB" ELSE "return"
    /\ ran' = ran \cup {"a"}
    /\ skipped' = skipped \cup Skipped("a", tz, cutoff, ENABLED_THEMES, stream)
    /\ quota' = quota - Len(stream)
    /\ UNCHANGED <<cli_vars, slack_vars, inputs, now, ci, cutoff, media, global_seen, blocks, log>>

\* fallback (B): the name-only query
FetchFallbackB(stream) ==
    /\ pc = "fallbackB"
    /\ LET c == countries[ci]
           m == CollectFallbackB(media, c, tz, cutoff, ENABLED_THEMES, stream)
       IN  /\ media' = m
           /\ taken' = [taken EXCEPT !.b = @ + (Len(m) - Len(media))]
    /\ pc' = "return"
    /\ ran' = ran \cup {"b"}
    /\ skipped' = skipped \cup Skipped("b", tz, cutoff, ENABLED_THEMES, stream)
    /\ quota' = quota - Len(stream)
    /\ UNCHANGED <<cli_vars, slack_vars, inputs, now, ci, cutoff, verified, global_seen, blocks, log>>

\* a fetch that raises: feedparser.parse lets an exception through (a failure
\* it does not embed in its result, such as a timeout while the response is
\* read) or _ts raises on a time tuple time.mktime cannot convert.  Neither
\* _collect_for nor generate_digest has a handler, so the exception leaves
\* generate_digest and nothing is returned.
FetchRaises ==
    /\ pc \in {"verified", "media", "generic", "fallbackA", "fallbackB"}
    /\ pc' = "aborted"
    /\ UNCHANGED <<cli_vars, slack_vars, inputs, quota, now, ci, cutoff, verified, media, global_seen,
                   blocks, ran, taken, skipped, log>>

\* the media candidates taken whenever no verified candidate is left unclaimed
ChosenAfterDedupe(v, m, vonly) ==
    IF vonly /\ \E k \in 1..Len(v) : KeyOf(v[k]) \notin global_seen
    THEN v ELSE v \o m

\* the items generate_digest takes from the two candidate lists
Chosen(v, m, vonly) == IF vonly /\ v # <<>> THEN v ELSE v \o m

\* the loop body with "if not unique: continue" before the block is built
AssembleSkipEmpty ==
    /\ pc = "return"
    /\ LET c == countries[ci]
           v == _dedupe(verified)
           m == _dedupe(media)
           items == Chosen(v, m, verified_only)
           d == GlobalDedupe(items, global_seen, <<>>)
       IN  /\ global_seen' = d.seen
           /\ blocks' = IF d.unique = <<>> THEN blocks
                        ELSE Append(blocks, BuildBlock(c, d.unique))
           /\ log' = Append(log, [country |-> c, v |-> v, m |-> m,
                                  items |-> items,
                                  unique |-> d.unique,
                                  now |-> now, cutoff |-> cutoff,
                                  ran |-> ran, taken |-> taken,
                                  skipped |-> skipped])
    /\ pc' = "loop"
    /\ UNCHANGED <<cli_vars, slack_vars, inputs, quota, now, ci, cutoff, verified, media, ran, taken,
                   skipped>>

\* _collect_for returns the two de-duplicated lists; generate_digest picks
\* the items, removes what earlier countries claimed, and builds the block
Assemble ==
    /\ pc = "return"
    /\ LET c == countries[ci]
           v == _dedupe(verified)
           m == _dedupe(media)
           items == Chosen(v, m, verified_only)
           d == GlobalDedupe(items, global_seen, <<>>)
       IN  /\ global_seen' = d.seen
           /\ blocks' = Append(blocks, BuildBlock(c, d.unique))
           /\ log' = Append(log, [country |-> c, v |-> v, m |-> m,
                                  items |-> items,
                                  unique |-> d.unique,
                                  now |-> now, cutoff |-> cutoff,
                                  ran |-> ran, taken |-> taken,
                                  skipped |-> skipped])
    /\ pc' = "loop"
    /\ UNCHANGED <<cli_vars, slack_vars, inputs, quota, now, ci, cutoff, verified, media, ran, taken,
                   skipped>>

\* the loop is over: header and blocks are returned
Finish ==
    /\ pc = "loop"
    /\ ci = Len(countries)
    /\ pc' = "done"
    /\ UNCHANGED <<cli_vars, slack_vars, inputs, quota, now, ci, cutoff, verified, media, global_seen,
                   blocks, ran, taken, skipped, log>>

Next ==
    \/ BeginCountry
    \/ \E stream \in Streams(profile, quota) : FetchTargeted(stream)
    \/ \E stream \in Streams(profile, quota) : FetchFallbackA(stream)
    \/ \E stream \in Streams(profile, quota) : FetchFallbackB(stream)
    \/ FetchRaises
    \/ Assemble
    \/ Finish


(* ------------------------------------------------------------------ *)
(* app_cli.py: a call of load_channels_config and a call of            *)
(* post_to_slack, each on inputs of its own                            *)
(* ------------------------------------------------------------------ *)
\* the digest is not running
DigestIdle ==
    /\ countries = <<>>
    /\ hours = 2
    /\ verified_only = FALSE
    /\ ENABLED_THEMES = {}
    /\ tz = 0
    /\ profile = "probe"
    /\ quota = 0
    /\ now = 10
    /\ pc = "idle"
    /\ ci = 0
    /\ cutoff = 0
    /\ verified = <<>>
    /\ media = <<>>
    /\ global_seen = {}
    /\ blocks = <<>>
    /\ ran = {}
    /\ taken = NoneTaken
    /\ skipped = {}
    /\ log = <<>>

InitCli ==
    /\ DigestIdle
    /\ SlackIdle
    /\ raw \in RawValues
    /\ lpc = "call"
    /\ channels_map = JNull
    /\ channel_target \in Targets
    /\ msg \in MessageTexts
    /\ channel \in Channels
    /\ listing \in Listings
    /\ ppc = "guard"
    /\ cid = <<>>
    /\ target = <<>>
    /\ hist = <<>>
    /\ lookup = ""
    /\ calls = <<>>
    /\ printed = ""

post_vars ==
    <<channel_target, msg, channel, listing, ppc, cid, target, hist, lookup,
      calls, printed>>

\* channels_map = load_channels_config()
LoadChannelsConfig ==
    /\ lpc = "call"
    /\ LET r == load_channels_config(raw)
       IN  /\ lpc' = IF r.raised = "" THEN "returned" ELSE "raised"
           /\ channels_map' = r.value
    /\ UNCHANGED <<digest_vars, slack_vars, raw, post_vars>>

\* _already_posted_recently, up to the channel id: an id is taken as it is,
\* a name is looked up with conversations_list
GuardResolve(out) ==
    /\ ppc = "guard"
    /\ IF ID_RE(channel_target)
       THEN /\ cid' = channel_target
            /\ ppc' = "history"
            /\ calls' = calls
       ELSE /\ calls' = Append(calls, "conversations_list")
            /\ LET found == IF out = "ok"
                            THEN FindChannel(listing, LStrip(channel_target, {"#"}))
                            ELSE <<>>
               IN  /\ cid' = found
                   /\ ppc' = IF out = "Exception" THEN "raised"
                             ELSE IF found = <<>> THEN "post_resolve"
                             ELSE "history"
    /\ UNCHANGED <<digest_vars, slack_vars, raw, lpc, channels_map, channel_target, msg,
                   channel, listing, target, hist, lookup, printed>>

\* _already_posted_recently, the history of the channel: a duplicate ends
\* post_to_slack with the SKIP line, SlackApiError is caught and answered
\* False, anything else is not caught
GuardHistory(out) ==
    /\ ppc = "history"
    /\ calls' = Append(calls, "conversations_history")
    /\ lookup' = out
    /\ LET messages == IF out = "ok" THEN Recent(channel, DedupeMinutes) ELSE <<>>
       IN  /\ hist' = messages
           /\ IF out = "Exception"
              THEN ppc' = "raised" /\ printed' = printed
              ELSE IF already_posted(messages, msg)
              THEN ppc' = "returned" /\ printed' = "SKIP"
              ELSE ppc' = "post_resolve" /\ printed' = printed
    /\ UNCHANGED <<digest_vars, slack_vars, raw, lpc, channels_map, channel_target, msg,
                   channel, listing, cid, target>>

\* the target of the post: the id given, the id resolved, or '#name'
PostResolve(out) ==
    /\ ppc = "post_resolve"
    /\ IF ID_RE(channel_target)
       THEN /\ target' = channel_target
            /\ ppc' = "post"
            /\ calls' = calls
       ELSE /\ calls' = Append(calls, "conversations_list")
            /\ LET found == IF out = "ok"
                            THEN FindChannel(listing, channel_target)
                            ELSE <<>>
               IN  /\ target' = IF out = "Exception" THEN <<>>
                                 ELSE IF found # <<>> THEN found
                                 ELSE HashName(channel_target)
                   /\ ppc' = IF out = "Exception" THEN "raised" ELSE "post"
    /\ UNCHANGED <<digest_vars, slack_vars, raw, lpc, channels_map, channel_target, msg,
                   channel, listing, cid, hist, lookup, printed>>

\* client.chat_postMessage inside try: every way it ends returns
Post(out) ==
    /\ ppc = "post"
    /\ calls' = Append(calls, "chat_postMessage")
    /\ printed' = IF out = "ok" THEN "OK" ELSE "ERROR"
    /\ channel' = IF out = "ok"
                  THEN <<[text |-> msg, age |-> 0]>> \o channel
                  ELSE channel
    /\ ppc' = "returned"
    /\ UNCHANGED <<digest_vars, slack_vars, raw, lpc, channels_map, channel_target, msg,
                   listing, cid, target, hist, lookup>>

NextCli ==
    \/ LoadChannelsConfig
    \/ \E out \in ApiOutcomes : GuardResolve(out)
    \/ \E out \in ApiOutcomes : GuardHistory(out)
    \/ \E out \in ApiOutcomes : PostResolve(out)
    \/ \E out \in ApiOutcomes : Post(out)

(* ------------------------------------------------------------------ *)
(* slack_blocks.py: a call of build_blocks on arguments of its own     *)
(* ------------------------------------------------------------------ *)
InitBlocks ==
    /\ DigestIdle
    /\ CliIdle
    /\ btitle \in {<<"D","a","i","l","y"," ","b","r","i","e","f">>, <<>>}
    /\ bdigest \in Digests
    /\ bpc = "call"
    /\ bblocks = <<>>

\* bblocks = build_blocks(btitle, bdigest)
BuildBlocks ==
    /\ bpc = "call"
    /\ bblocks' = build_blocks(btitle, bdigest)
    /\ bpc' = "returned"
    /\ UNCHANGED <<digest_vars, cli_vars, btitle, bdigest>>

NextBlocks == BuildBlocks
Spec == Init /\ [][Next]_vars

SpecCli == InitCli /\ [][NextCli]_vars

SpecBlocks == InitBlocks /\ [][NextBlocks]_vars

(* ------------------------------------------------------------------ *)
(* What the claims speak about                                         *)
(* ------------------------------------------------------------------ *)
\* the identity keys of a list of items
Keys(items) == {KeyOf(items[i]) : i \in 1..Len(items)}

\* the identity key read off a displayed line
LineKey(l) == IF l.link # <<>> THEN l.link ELSE l.title \o l.domain

\* the positions of the item lines of block b
ItemPos(b) == {p \in 1..Len(blocks[b].lines) : blocks[b].lines[p].kind = "item"}

\* the identity keys displayed in block b
ShownKeys(b) == {LineKey(blocks[b].lines[p]) : p \in ItemPos(b)}

\* the countries finished so far
Finished == 1..Len(log)

\* the candidates _collect_for returned for the i-th country
Candidates(i) == log[i].v \o log[i].m

(* ------------------------------------------------------------------ *)
(* C1                                                                  *)
(* ------------------------------------------------------------------ *)
\* C1: in one run of generate_digest no identity key (the link, or
\* title+domain when the link is empty) occurs twice in the digest: no two
\* lines of one block and no two lines of different blocks carry the same
\* key, and the same holds of the pools the blocks are drawn from.
C1_KeyUniqueInDigest ==
    /\ \A b1, b2 \in 1..Len(blocks) :
          \A p \in ItemPos(b1), q \in ItemPos(b2) :
              (<<b1, p>> # <<b2, q>>)
                  => LineKey(blocks[b1].lines[p]) # LineKey(blocks[b2].lines[q])
    /\ \A i, j \in Finished :
          \A p \in 1..Len(log[i].unique), q \in 1..Len(log[j].unique) :
              (<<i, p>> # <<j, q>>)
                  => KeyOf(log[i].unique[p]) # KeyOf(log[j].unique[q])

\* a finished run in which the second country's candidates repeat a key
\* inside themselves and also repeat a key the first country displayed
C1_Witness ==
    /\ pc = "done"
    /\ Len(log) = 2
    /\ \E p, q \in 1..Len(log[2].items) :
          p # q /\ KeyOf(log[2].items[p]) = KeyOf(log[2].items[q])
    /\ Keys(log[2].items) \cap ShownKeys(1) # {}
    /\ blocks[2].total > 0

(* ------------------------------------------------------------------ *)
(* C2                                                                  *)
(* ------------------------------------------------------------------ *)
\* C2 as stated: whenever the candidates of an earlier country and of a
\* later, different country carry the same key, the later country's block
\* does not show it.
C2_Original ==
    \A i, j \in Finished :
        (i < j /\ countries[i] # countries[j])
            => (Keys(Candidates(i)) \cap Keys(Candidates(j)))
                   \cap ShownKeys(j) = {}

\* C2: first-seen wins in caller order among the items generate_digest
\* retains: a key among the items retained for an earlier country (all
\* candidates, or the verified ones alone when verified_only is set and
\* there are some) is neither displayed nor counted in a later block.
C2_FirstSeenWins ==
    \A i, j \in Finished :
        i < j => /\ Keys(log[i].items) \cap ShownKeys(j) = {}
                 /\ Keys(log[i].items) \cap Keys(log[j].unique) = {}

\* two different countries retain the same key; the first displays it
C2_Witness ==
    /\ pc = "done"
    /\ \E i, j \in Finished :
          /\ i < j
          /\ countries[i] # countries[j]
          /\ Keys(log[i].items) \cap Keys(log[j].items) \cap ShownKeys(i) # {}

(* ------------------------------------------------------------------ *)
(* C3                                                                  *)
(* ------------------------------------------------------------------ *)
\* the feed entries an item can have been made of
Stripped ==
    [e \in Feed |-> [title |-> Strip(e.title), summary |-> Strip(e.summary)]]

SourceEntries(it) ==
    {e \in Feed : /\ e.link = it.link
                  /\ Stripped[e].title = it.title
                  /\ Stripped[e].summary = it.summary}

\* the stages in which the i-th country skipped an entry for the reason why
SkippedIn(i, why) == {s.stage : s \in {x \in log[i].skipped : x.why = why}}

Triggers(th, text) ==
    \E i \in 1..Len(THEMES) :
        /\ THEMES[i].name = th
        /\ \E k \in 1..Len(THEMES[i].kws) :
              Contains(Lower(text), Lower(THEMES[i].kws[k]))

\* the texts the stages match themes against
Texts == {Stripped[e].title \o <<" ">> \o Stripped[e].summary : e \in Feed}

TriggerTable == [th \in ThemeNames, text \in Texts |-> Triggers(th, text)]

\* C4: every item of a pool and every displayed line lists at least one
\* theme, and every theme listed is enabled and has a trigger phrase in the
\* item's title and summary, whichever stage accepted the item.
C4_ThemesMatched ==
    /\ \A b \in 1..Len(blocks) : \A p \in ItemPos(b) :
          blocks[b].lines[p].themes # <<>>
    /\ \A i \in Finished : \A p \in 1..Len(log[i].unique) :
          LET it == log[i].unique[p]
          IN  /\ it.themes # <<>>
              /\ \A k \in 1..Len(it.themes) :
                    /\ ENABLED_THEMES # {} => it.themes[k] \in ENABLED_THEMES
                    /\ it.title \o <<" ">> \o it.summary \in Texts
                    /\ TriggerTable[it.themes[k],
                                    it.title \o <<" ">> \o it.summary]

\* the first country met an off-theme entry in the targeted stage and in
\* both fallbacks and is left without items; the second displays an item
C4_Witness ==
    /\ pc = "done"
    /\ Len(log) = 2
    /\ SkippedIn(1, "theme") = {"targeted", "a", "b"}
    /\ blocks[1].total = 0
    /\ ItemPos(2) # {}

(* ------------------------------------------------------------------ *)
(* C5                                                                  *)
(* ------------------------------------------------------------------ *)
\* the stages that appended an item for the i-th country
Contributing(i) == {s \in {"targeted", "a", "b"} : log[i].taken[s] > 0}

\* C5: for every finished country, fallback (a) ran exactly when the
\* targeted stage appended nothing and the country has a verified-site
\* list, fallback (b) ran exactly when the targeted stage and fallback (a)
\* appended nothing, and the items returned come from one stage only.
C5_StagedFallback ==
    \A i \in Finished :
        /\ "targeted" \in log[i].ran
        /\ ("a" \in log[i].ran) <=> (/\ log[i].taken.targeted = 0
                                     /\ log[i].country \in DOMAIN COUNTRY_CONF)
        /\ ("b" \in log[i].ran) <=> (/\ log[i].taken.targeted = 0
                                     /\ log[i].taken.a = 0)
        /\ Cardinality(Contributing(i)) <= 1
        /\ Len(Candidates(i)) <= log[i].taken.targeted + log[i].taken.a
                                     + log[i].taken.b

\* a listed country that went through both fallbacks and took its item from
\* fallback (b), followed by an unlisted one served by the targeted stage
C5_Witness ==
    /\ pc = "done"
    /\ Len(log) = 2
    /\ log[1].ran = {"targeted", "a", "b"}
    /\ Contributing(1) = {"b"}
    /\ log[2].ran = {"targeted"}
    /\ Contributing(2) = {"targeted"}

(* ------------------------------------------------------------------ *)
(* C6                                                                  *)
(* ------------------------------------------------------------------ *)
\* the pool item a displayed line of block b was made of
PoolItem(b, p) ==
    CHOOSE it \in {log[b].unique[k] : k \in 1..Len(log[b].unique)} :
        KeyOf(it) = LineKey(blocks[b].lines[p])

\* C6: in every block no line with the media badge stands above a line with
\* the verified badge.
C6_VerifiedAboveMedia ==
    \A b \in 1..Len(blocks) : \A p, q \in ItemPos(b) :
        p < q => ~(/\ blocks[b].lines[p].badge = "media"
                   /\ blocks[b].lines[q].badge = "verified")

\* a verified line stands above a media line that is newer and matches more
\* themes
C6_Witness ==
    \E b \in 1..Len(blocks) : \E p, q \in ItemPos(b) :
        /\ p < q
        /\ blocks[b].lines[p].badge = "verified"
        /\ blocks[b].lines[q].badge = "media"
        /\ Len(blocks[b].lines[q].themes) > Len(blocks[b].lines[p].themes)
        /\ PoolItem(b, q).time > PoolItem(b, p).time

(* ------------------------------------------------------------------ *)
(* C7                                                                  *)
(* ------------------------------------------------------------------ *)
\* a ranks strictly above b: by tier, then by the number of matched themes,
\* then by time
Outranks(a, b) ==
    \/ a.verified /\ ~b.verified
    \/ /\ a.verified = b.verified
       /\ Len(a.themes) > Len(b.themes)
    \/ /\ a.verified = b.verified
       /\ Len(a.themes) = Len(b.themes)
       /\ a.time > b.time

\* the pool items of block b that are not displayed
LeftOut(b) ==
    {log[b].unique[k] : k \in {j \in 1..Len(log[b].unique) :
                                  KeyOf(log[b].unique[j]) \notin ShownKeys(b)}}

\* C7: the lines of a block are made of pool items, six of them or the
\* whole pool if it is smaller, each line is made of its item's fields, no
\* line is outranked by a line below it, and no pool item left out outranks
\* a displayed one.
C7_TopOfRankedPool ==
    \A b \in 1..Len(blocks) :
        /\ ShownKeys(b) \subseteq Keys(log[b].unique)
        /\ Cardinality(ItemPos(b)) =
               IF Len(log[b].unique) < 6 THEN Len(log[b].unique) ELSE 6
        /\ \A p \in ItemPos(b) :
              /\ blocks[b].lines[p].title = PoolItem(b, p).title
              /\ blocks[b].lines[p].domain = PoolItem(b, p).domain
              /\ blocks[b].lines[p].themes = PoolItem(b, p).themes
              /\ (blocks[b].lines[p].badge = "verified") = PoolItem(b, p).verified
        /\ \A p, q \in ItemPos(b) :
              p < q => ~Outranks(PoolItem(b, q), PoolItem(b, p))
        /\ \A p \in ItemPos(b) : \A it \in LeftOut(b) :
              ~Outranks(it, PoolItem(b, p))

\* a block with items left out, in which the order of two lines of one tier
\* is decided by the number of themes, and of two others by the time
C7_Witness ==
    \E b \in 1..Len(blocks) :
        /\ LeftOut(b) # {}
        /\ \E p, q \in ItemPos(b) :
              /\ p < q
              /\ PoolItem(b, p).verified = PoolItem(b, q).verified
              /\ Len(PoolItem(b, p).themes) > Len(PoolItem(b, q).themes)
              /\ PoolItem(b, p).time < PoolItem(b, q).time
        /\ \E p, q \in ItemPos(b) :
              /\ p < q
              /\ PoolItem(b, p).verified = PoolItem(b, q).verified
              /\ Len(PoolItem(b, p).themes) = Len(PoolItem(b, q).themes)
              /\ PoolItem(b, p).time > PoolItem(b, q).time

(* ------------------------------------------------------------------ *)
(* C8                                                                  *)
(* ------------------------------------------------------------------ *)
\* C8: a block displays at most six items; total is the size of the
\* country's de-duplicated pool, the verified count is the number of
\* verified pool items, the media count the number of the others, and the
\* two counts add up to total.
C8_CapAndMetrics ==
    \A b \in 1..Len(blocks) :
        /\ Cardinality(ItemPos(b)) <= 6
        /\ blocks[b].total = Len(log[b].unique)
        /\ blocks[b].vcount =
               Cardinality({k \in 1..Len(log[b].unique) : log[b].unique[k].verified})
        /\ blocks[b].mcount =
               Cardinality({k \in 1..Len(log[b].unique) : ~log[b].unique[k].verified})
        /\ blocks[b].vcount + blocks[b].mcount = blocks[b].total

\* a block whose pool is larger than the display and holds both tiers
C8_Witness ==
    \E b \in 1..Len(blocks) :
        /\ blocks[b].total > 6
        /\ Cardinality(ItemPos(b)) = 6
        /\ blocks[b].vcount > 0
        /\ blocks[b].mcount > 0

(* ------------------------------------------------------------------ *)
(* C9                                                                  *)
(* ------------------------------------------------------------------ *)
\* C9: there is one block for every country processed, in the order of the
\* country list, and when the run is over one for every entry of the list;
\* a country left without items has the no-items line under its header and
\* a country with items has item lines only.
C9_OneBlockPerCountry ==
    /\ Len(blocks) = Len(log)
    /\ Len(blocks) = IF pc \in {"loop", "done"} THEN ci ELSE ci - 1
    /\ pc = "done" => Len(blocks) = Len(countries)
    /\ \A b \in 1..Len(blocks) :
          /\ blocks[b].country = countries[b]
          /\ log[b].unique = <<>> =>
                 blocks[b].total = 0 /\ blocks[b].lines = <<NoItemsLine>>
          /\ log[b].unique # <<>> =>
                 ItemPos(b) = 1..Len(blocks[b].lines) /\ ItemPos(b) # {}

\* a finished run over two different countries: the first is left without
\* items although entries were fetched for it, the second has items
C9_Witness ==
    /\ pc = "done"
    /\ Len(countries) = 2
    /\ countries[1] # countries[2]
    /\ log[1].skipped # {}
    /\ blocks[1].lines = <<NoItemsLine>>
    /\ ItemPos(2) # {}

(* ------------------------------------------------------------------ *)
(* C10                                                                 *)
(* ------------------------------------------------------------------ *)
\* C10 as stated: no item of the digest has a time equal to the cutoff of
\* its country's _collect_for.
C10_Original ==
    \A i \in Finished : \A p \in 1..Len(log[i].unique) :
        log[i].unique[p].time # log[i].cutoff

\* C10: the cutoff is an inclusive lower bound: the recency test drops a
\* dated entry only if its time is strictly older than the cutoff, and every
\* item kept has a time at or after the cutoff.
C10_CutoffInclusive ==
    /\ \A s \in skipped : s.why = "stale" => s.time < cutoff
    /\ \A i \in Finished :
          /\ \A s \in log[i].skipped : s.why = "stale" => s.time < log[i].cutoff
          /\ \A p \in 1..Len(log[i].unique) :
                log[i].unique[p].time >= log[i].cutoff

\* a block displays an item whose time is exactly the cutoff, while an older
\* entry was dropped as stale for the same country
C10_Witness ==
    \E i \in Finished :
        /\ \E s \in log[i].skipped : s.why = "stale"
        /\ \E p \in ItemPos(i) : PoolItem(i, p).time = log[i].cutoff

(* ------------------------------------------------------------------ *)
(* C11                                                                 *)
(* ------------------------------------------------------------------ *)
\* C11: no failure of a fetch aborts the run: whatever happens to a query,
\* the run goes on with the remaining queries and countries, so it never
\* ends before every country has its block.
C11_FailureIsolated ==
    /\ pc # "aborted"
    /\ pc \notin {"loop", "verified", "media", "generic", "fallbackA",
                  "fallbackB", "return"} => Len(blocks) = Len(countries)

(* ------------------------------------------------------------------ *)
(* C13                                                                 *)
(* ------------------------------------------------------------------ *)
\* the places where p occurs in s
Occurrences(s, p) ==
    {i \in 1..(Len(s) - Len(p) + 1) : SubSeq(s, i, i + Len(p) - 1) = p}

\* s.split(sep)
RECURSIVE Split(_, _)
Split(s, sep) ==
    LET at == Occurrences(s, sep)
    IN  IF at = {} THEN <<s>>
        ELSE LET i == CHOOSE j \in at : \A k \in at : j <= k
             IN  <<SubSeq(s, 1, i - 1)>>
                 \o Split(SubSeq(s, i + Len(sep), Len(s)), sep)

\* the i-th smallest element of a set of numbers
RECURSIVE Nth(_, _)
Nth(set, i) ==
    LET m == CHOOSE j \in set : \A k \in set : j <= k
    IN  IF i = 1 THEN m ELSE Nth(set \ {m}, i - 1)

\* the parenthesised groups of a query, in order: the search engine requires
\* every group of a query (a space between groups is a conjunction) and, in
\* a group, one of its OR-separated terms
Groups(q) ==
    LET opens == {i \in 1..Len(q) : q[i] = "("}
        closes == {i \in 1..Len(q) : q[i] = ")"}
    IN  [k \in 1..Cardinality(opens) |->
            SubSeq(q, Nth(opens, k) + 1, Nth(closes, k) - 1)]

\* a query is a sequence of groups, one space between two groups
WellGrouped(q) ==
    LET opens == {i \in 1..Len(q) : q[i] = "("}
        closes == {i \in 1..Len(q) : q[i] = ")"}
        n == Cardinality(opens)
    IN  /\ Cardinality(closes) = n
        /\ n > 0
        /\ Nth(opens, 1) = 1
        /\ Nth(closes, n) = Len(q)
        /\ \A k \in 1..n : Nth(opens, k) < Nth(closes, k)
        /\ \A k \in 1..(n - 1) :
              /\ Nth(opens, k + 1) = Nth(closes, k) + 2
              /\ q[Nth(closes, k) + 1] = " "

\* the first two groups: one of the topic terms, and one of the name variants
TopicsAndNames(q, country) ==
    LET g == Groups(q)
    IN  /\ Len(g) >= 2
        /\ Split(g[1], <<" ","O","R"," ">>) = TOPIC_KEYWORDS
        /\ Split(g[2], <<" ","O","R"," ">>)
             = [i \in 1..Len(_names(country)) |-> Quoted(_names(country)[i])]

\* a query of the targeted tier for one domain
SiteQuery(q, country, site) ==
    /\ WellGrouped(q)
    /\ Len(Groups(q)) = 3
    /\ TopicsAndNames(q, country)
    /\ Groups(q)[3] = <<"s","i","t","e",":">> \o site
    /\ Cardinality(Occurrences(q, <<"s","i","t","e",":">>)) = 1
    /\ Occurrences(Groups(q)[3], <<" ","O","R"," ">>) = {}

\* a query with no domain restriction
OpenQuery(q, country) ==
    /\ WellGrouped(q)
    /\ Len(Groups(q)) = 2
    /\ TopicsAndNames(q, country)
    /\ Occurrences(q, <<"s","i","t","e",":">>) = {}

\* the query sets of every country, of both tiers
QuerySets ==
    [c \in InputCountries, t \in BOOLEAN |-> _build_queries(c, t)]

QueryShape ==
    [c \in InputCountries, t \in BOOLEAN |->
        LET qs == QuerySets[c, t]
        IN  IF t /\ c \in DOMAIN COUNTRY_CONF
            THEN LET conf == COUNTRY_CONF[c]
                 IN  /\ DOMAIN qs = {"verified", "media"}
                     /\ Len(qs.verified) = Len(conf.verified_sites)
                     /\ Len(qs.media) = Len(conf.media_sites)
                     /\ \A i \in 1..Len(qs.verified) :
                           SiteQuery(qs.verified[i], c, conf.verified_sites[i])
                     /\ \A i \in 1..Len(qs.media) :
                           SiteQuery(qs.media[i], c, conf.media_sites[i])
            ELSE /\ DOMAIN qs = {"generic"}
                 /\ Len(qs.generic) = 1
                 /\ OpenQuery(qs.generic[1], c)]

\* C13: for a country with domain lists the targeted query sets hold one
\* query per listed domain, each made of the topic group, the name group and
\* one site: restriction on that domain, never an OR of domains; for a
\* country without lists, and for the generic tier, there is one query of
\* topic group and name group with no site: restriction.  The passes a run
\* goes through for a country are the query sets built for it.
C13_QueryShape ==
    /\ \A c \in InputCountries, t \in BOOLEAN : QueryShape[c, t]
    /\ pc \in {"verified", "media", "generic"} =>
          pc \in DOMAIN QuerySets[countries[ci],
                                  countries[ci] \in DOMAIN COUNTRY_CONF]

\* the media-site pass of a country with lists runs, one query per media site
C13_Witness ==
    /\ pc = "media"
    /\ countries[ci] = Serbia
    /\ Len(QuerySets[Serbia, TRUE].media) = Len(COUNTRY_CONF[Serbia].media_sites)
    /\ Len(COUNTRY_CONF[Serbia].media_sites) > 1

(* ------------------------------------------------------------------ *)
(* C14                                                                 *)
(* ------------------------------------------------------------------ *)
\* the longest text the delivery API takes in one message, on the scale of
\* the feeds above (the API cuts a text at 40,000 characters)
PayloadLimit == 400

\* the message of a finished run
Message == build_message(countries, hours, blocks)

\* C14: the message text handed to delivery, build_message around the text
\* of generate_digest, is never longer than the payload limit.
C14_WithinPayloadLimit ==
    pc = "done" => Len(Message) <= PayloadLimit

(* ------------------------------------------------------------------ *)
(* C15                                                                 *)
(* ------------------------------------------------------------------ *)
\* the variable holds a JSON object whose values are all lists
WellFormedConfig(r) ==
    /\ r.set
    /\ json_loads(r.text).ok
    /\ json_loads(r.text).value.t = "dict"
    /\ \A p \in {json_loads(r.text).value.items[i] :
                   i \in 1..Len(json_loads(r.text).value.items)} :
          p.v.t = "list"

\* C15: a call of load_channels_config never raises; it returns the
\* built-in default map when ORYX_CHANNELS_JSON is unset, is not valid
\* JSON, is not an object or maps a key to a value that is not a list, and
\* it returns the parsed mapping only when every value is a list (the keys
\* of a JSON object are strings).
C15_DefaultOnBadConfig ==
    /\ lpc # "raised"
    /\ lpc = "returned" =>
          /\ ~WellFormedConfig(raw) => channels_map = default_map
          /\ channels_map # default_map =>
                /\ WellFormedConfig(raw)
                /\ channels_map = json_loads(raw.text).value

\* the call has returned the default map for an object with a value that is
\* not a list
C15_Witness ==
    /\ lpc = "returned"
    /\ raw.set
    /\ json_loads(raw.text).ok
    /\ json_loads(raw.text).value.t = "dict"
    /\ ~WellFormedConfig(raw)
    /\ channels_map = default_map

(* ------------------------------------------------------------------ *)
(* C20                                                                 *)
(* ------------------------------------------------------------------ *)
\* the calls of chat_postMessage made by the call of post_to_slack
PostCalls == {i \in 1..Len(calls) : calls[i] = "chat_postMessage"}

\* the call of post_to_slack is over
PostOver == ppc \in {"returned", "raised"}

\* the history read holds a message whose stripped text is that of msg
DuplicateRead ==
    /\ lookup = "ok"
    /\ \E i \in 1..Len(hist) :
          /\ hist[i].age < DedupeMinutes
          /\ Strip(hist[i].text) = Strip(msg)

\* C20 as claimed: one call of post_to_slack calls chat_postMessage at most
\* once, not at all when the history of the last dedupe_minutes holds a
\* message of identical stripped text, and when the history lookup fails,
\* in whatever way, the post is still attempted.
C20_Original ==
    /\ Cardinality(PostCalls) <= 1
    /\ DuplicateRead => PostCalls = {}
    /\ (PostOver /\ lookup \in {"SlackApiError", "Exception"}) => PostCalls # {}

\* C20: one call of post_to_slack calls chat_postMessage at most once, and
\* not at all when the history of the last dedupe_minutes holds a message of
\* identical stripped text (it returns with the SKIP line).  When
\* conversations_history raises SlackApiError the guard answers no and a
\* call that returns has attempted the post; when it raises anything else
\* the exception leaves post_to_slack and nothing is posted.
C20_PostAtMostOnce ==
    /\ Cardinality(PostCalls) <= 1
    /\ DuplicateRead => /\ PostCalls = {}
                        /\ ppc = "returned"
                        /\ printed = "SKIP"
    /\ (ppc = "returned" /\ lookup = "SlackApiError") => Cardinality(PostCalls) = 1
    /\ lookup = "Exception" => ppc = "raised" /\ PostCalls = {}

\* the history lookup failed with SlackApiError, the post was attempted, it
\* failed and post_to_slack returned without a second attempt
C20_Witness ==
    /\ ppc = "returned"
    /\ lookup = "SlackApiError"
    /\ printed = "ERROR"
    /\ calls[Len(calls)] = "chat_postMessage"
    /\ Cardinality(PostCalls) = 1

(* ------------------------------------------------------------------ *)
(* C16                                                                 *)
(* ------------------------------------------------------------------ *)
\* the entries the upstream of a run serves
FeedOf(p) ==
    IF p = "probe" THEN Probe
    ELSE IF p = "shared" THEN Shared
    ELSE IF p = "abroad" THEN Abroad
    ELSE {Bulk[i] : i \in 1..Len(Bulk)}

\* the domains of the feed
Doms == {_domain(e.link) : e \in Feed}

\* the domain is on the verified list, on the media list, of the country
OnVerifiedList ==
    [c \in InputCountries, d \in Doms |->
        /\ c \in DOMAIN COUNTRY_CONF
        /\ _endswith_any(d, COUNTRY_CONF[c].verified_sites)]

OnMediaList ==
    [c \in InputCountries, d \in Doms |->
        /\ c \in DOMAIN COUNTRY_CONF
        /\ _endswith_any(d, COUNTRY_CONF[c].media_sites)]

\* the domain ends with a local TLD of the country
LocalTld == [c \in InputCountries, d \in Doms |-> _is_local_domain(c, d)]

\* the domain is on the global allow-list
GlobalAllowed == [d \in Doms |-> is_global(d)]

\* the domain looks like a government or parliament host
LooksOfficial == [d \in Doms |-> \E p \in VerifiedPatterns : Contains(d, p)]

\* title and summary mention the country
Mentions == [c \in InputCountries, t \in Texts |-> _contains_country(t, c)]

\* one of the four gate rules holds of the entry
GateRule ==
    [c \in InputCountries, e \in Feed |->
        LET d == _domain(e.link)
            t == Stripped[e].title \o <<" ">> \o Stripped[e].summary
        IN  \/ OnVerifiedList[c, d] \/ OnMediaList[c, d]
            \/ LocalTld[c, d] /\ Mentions[c, t]
            \/ GlobalAllowed[d] /\ Mentions[c, t]
            \/ LooksOfficial[d] /\ Mentions[c, t]]

\* C16: in the targeted stage a fresh entry that matches a theme is
\* accepted exactly when one of the four gate rules holds of it (listed
\* domain; local TLD and country mention; global allow-list and country
\* mention; government-looking host and country mention), whichever query
\* label the entry came back under.
C16_GateRules ==
    pc \in {"verified", "media", "generic"} =>
        \A e \in FeedOf(profile) :
            SkipMemo[tz, cutoff, ENABLED_THEMES, e] = <<>> =>
                ((TargetedMemo[countries[ci], tz, cutoff, ENABLED_THEMES, pc, e]
                     # <<>>)
                 <=> GateRule[countries[ci], e])

(* ------------------------------------------------------------------ *)
(* C17                                                                 *)
(* ------------------------------------------------------------------ *)
\* the tier the gate rule that accepts the item gives it agrees with the
\* tier the item carries
TierByRule(c, it) ==
    LET d == it.domain
        t == it.title \o <<" ">> \o it.summary
    IN  /\ OnVerifiedList[c, d] => it.verified
        /\ (OnMediaList[c, d] /\ ~OnVerifiedList[c, d]) => ~it.verified
        /\ (/\ ~OnVerifiedList[c, d]
            /\ ~OnMediaList[c, d]
            /\ (LocalTld[c, d] \/ GlobalAllowed[d])
            /\ Mentions[c, t]) => ~it.verified

\* C17: an item the targeted stage accepted is verified when its domain is
\* on the country's verified list and media when it is on the media list,
\* when the local-TLD rule accepted it or when the global allow-list rule
\* accepted it, whichever query returned it.
C17_TierByRule ==
    \A i \in Finished :
        Contributing(i) = {"targeted"} =>
            \A p \in 1..Len(Candidates(i)) :
                TierByRule(log[i].country, Candidates(i)[p])

(* ------------------------------------------------------------------ *)
(* C18                                                                 *)
(* ------------------------------------------------------------------ *)
\* C18: every item fallback (a) accepted matches a theme, and its domain is
\* on the country's verified list or its title and summary mention the
\* country.
C18_FallbackAGated ==
    \A i \in Finished :
        Contributing(i) = {"a"} =>
            \A p \in 1..Len(Candidates(i)) :
                LET it == Candidates(i)[p]
                IN  /\ it.themes # <<>>
                    /\ \/ OnVerifiedList[log[i].country, it.domain]
                       \/ Mentions[log[i].country,
                                   it.title \o <<" ">> \o it.summary]

(* ------------------------------------------------------------------ *)
(* C19                                                                 *)
(* ------------------------------------------------------------------ *)
\* C19: every item fallback (b) accepted lists a theme with a trigger
\* phrase in its text, mentions the country in its title and summary, has a
\* domain under a local TLD of the country or on the global allow-list, and
\* is of the media tier.
C19_FallbackBGated ==
    \A i \in Finished :
        Contributing(i) = {"b"} =>
            /\ log[i].v = <<>>
            /\ \A p \in 1..Len(log[i].m) :
                  LET it == log[i].m[p]
                      t == it.title \o <<" ">> \o it.summary
                  IN  /\ it.themes # <<>>
                      /\ \A k \in 1..Len(it.themes) : TriggerTable[it.themes[k], t]
                      /\ Mentions[log[i].country, t]
                      /\ LocalTld[log[i].country, it.domain] \/ GlobalAllowed[it.domain]
                      /\ ~it.verified

\* a listed country went through the targeted stage and fallback (a) with
\* nothing accepted and took a story from fallback (b)
C19_Witness ==
    \E i \in Finished :
        /\ log[i].ran = {"targeted", "a", "b"}
        /\ Contributing(i) = {"b"}
        /\ log[i].m # <<>>
        /\ log[i].skipped # {}

\* C21: build_blocks renders exactly one section per country of
\* digest["countries"], in the order of that list, and a country without
\* items gets the placeholder line in its own position: the blocks after the
\* three heading blocks are the countries' sections in list order.
C21_ConfiguredOrder ==
    bpc = "returned" =>
        LET n == Len(bdigest.countries)
        IN  /\ Len(bblocks) >= 3 + 2 * n
            /\ SubSeq(bblocks, 4, 3 + 2 * n) = CountryBlocks(bdigest.countries)


ClaimedBefore(i) == UNION {Keys(log[j].items) : j \in 1..(i - 1)}

Undisplayed(i) == Keys(log[i].unique) \ ShownKeys(i)

\* C23: the run-scoped set holds exactly the keys of the items that came
\* through the cross-country loop, displayed or not; so a key of an earlier
\* country's pool, also one beyond the six displayed, is neither displayed
\* nor counted for a later country, and a media candidate left out of the
\* item list by verified_only has claimed nothing.
C23_ClaimBeyondCap ==
    /\ global_seen = UNION {Keys(log[i].unique) : i \in Finished}
    /\ \A i, j \in Finished :
          i < j => Undisplayed(i) \cap (ShownKeys(j) \cup Keys(log[j].unique)) = {}
    /\ \A i \in Finished :
          (Keys(log[i].m) \ Keys(log[i].items)) \cap global_seen
              \subseteq UNION {Keys(log[j].items) : j \in Finished \ {i}}

\* an earlier country counts a story it does not display, and a later
\* country that has the story among its candidates neither shows nor counts it
C23_Witness ==
    \E i, j \in Finished :
        /\ i < j
        /\ Len(log[i].unique) > DisplayCap
        /\ Undisplayed(i) \cap Keys(Candidates(j)) # {}
        /\ Undisplayed(i) \cap Keys(log[j].unique) = {}

(* ------------------------------------------------------------------ *)
(* C24                                                                 *)
(* ------------------------------------------------------------------ *)
\* the lines of block b with the media badge
MediaLines(b) == {p \in ItemPos(b) : blocks[b].lines[p].badge = "media"}

\* C24: with verified_only set, the pool of a country that has a verified
\* candidate is what the earlier countries left of its verified candidates:
\* no media item is displayed or counted, also when nothing is left; a
\* country without verified candidates draws on its media candidates.
\* With verified_only unset the pool is what the earlier countries left of
\* the verified and the media candidates together.
C24_VerifiedOnly ==
    \A i \in Finished :
        LET drawn == IF verified_only /\ log[i].v # <<>> THEN log[i].v
                     ELSE Candidates(i)
        IN  /\ Keys(log[i].unique) = Keys(drawn) \ ClaimedBefore(i)
            /\ \A k \in 1..Len(log[i].unique) :
                  \E n \in 1..Len(drawn) : log[i].unique[k] = drawn[n]
            /\ (verified_only /\ log[i].v # <<>>)
                  => /\ MediaLines(i) = {}
                     /\ blocks[i].mcount = 0
            /\ (verified_only /\ MediaLines(i) # {}) => log[i].v = <<>>

\* verified_only is set and a country has verified and media candidates; an
\* earlier country has claimed all the verified ones, and the block shows
\* the no-items line
C24_Witness ==
    /\ verified_only
    /\ \E i \in Finished :
          /\ log[i].v # <<>>
          /\ Keys(log[i].m) \ ClaimedBefore(i) # {}
          /\ log[i].unique = <<>>
          /\ blocks[i].lines = <<NoItemsLine>>

(* ------------------------------------------------------------------ *)
(* C25                                                                 *)
(* ------------------------------------------------------------------ *)
\* the host of a link in lower case, without one leading "www."
Host(url) ==
    LET h == Lower(netloc(url))
    IN  IF StartsWith(h, <<"w","w","w",".">>) THEN SubSeq(h, 5, Len(h)) ELSE h

\* C25: the domain of every candidate is the host of its link in lower case
\* with a leading "www." removed and nothing else; and the gate knows a host
\* of GLOBAL_ALLOWED that starts with the letter w: once the targeted stage
\* has been served the lender's report, which is fresh, on theme and
\* mentions the country, it has appended an item.
C25_DomainIsHost ==
    /\ \A i \in Finished :
          \A k \in 1..Len(Candidates(i)) :
              Candidates(i)[k].domain = Host(Candidates(i)[k].link)
    /\ (/\ profile = "lender"
        /\ ran = {"targeted"}
        /\ quota < Cardinality(Lender))
          => taken.targeted > 0
====
